---- MODULE Spec2Model ----
(***************************************************************************)
(* Model of the weather-to-instrumentation transformation of               *)
(* signalk-n2k-weather-provider: NMEA2000PathMapper (src/nmea2000-paths.js)*)
(* with its range validator, defaulting mapper and derived quantities, and *)
(* of the calculations that feed it: WindCalculator, the humidity          *)
(* conversion of weather-utils, and the step of WeatherService that        *)
(* enhances an observation with the motion of the vessel.                  *)
(* The plugin itself (plugin/index.js) with its WeatherService is modelled *)
(* as the event loop sees it: start, stop, the timers and the fetches      *)
(* under way; AccuWeatherClient by its location cache.                     *)
(*                                                                         *)
(* Numbers.  A JavaScript value is a record [t, v, s].  t is the kind:     *)
(* "undefined", "null", "string", "number" (a finite number), "NaN",       *)
(* "Infinity", "-Infinity".  v is the magnitude of a finite number, or of  *)
(* the numeral a numeric string spells, as an integer count of the unit of *)
(* the field that holds it:                                                *)
(*    temperatures      1/100 K      (273.15 K   is 27315)                 *)
(*    pressure          1 Pa                                               *)
(*    humidity          1/100        (0.5        is 50)                    *)
(*    wind speeds       1/10 m/s     (102.3 m/s  is 1023)                  *)
(*    angles            pi/8 rad     (Math.PI    is 8)                     *)
(*    coordinates       1/100000 deg (48 degrees is 4800000)               *)
(* s is the text of a string ("" for every other kind; "#" stands for the  *)
(* decimal numeral of v).                                                  *)
(* The derived quantities (absolute humidity, air density) go through      *)
(* Math.exp and are computed on decimal floating-point numbers             *)
(* [k, m, e] = m * 10^e with the range of an IEEE double (see Float).      *)
(***************************************************************************)
EXTENDS Integers, Sequences, FiniteSets, TLC

VARIABLES
  candidate,      \* the weather data handed to the validator and the mapper
  baseData,       \* the observation the candidate was varied from
  pc,             \* which call was made last
  validatedData,  \* what validateNMEA2000Ranges returned
  deltaValues,    \* updates[0].values of what mapToSignalKPaths returned
  callee,         \* the calculation that was called ("" before the call)
  args,           \* the arguments it was called with
  result,         \* what it returned
  plugin,         \* the variables of plugin/index.js
  service,        \* the WeatherService which start() made last
  loop,           \* the timers which are set and the fetches under way
  vessel,         \* what the Signal K server knows of the vessel
  event,          \* what happened last
  client,         \* the AccuWeatherClient: its location cache
  network,        \* the location searches under way
  reply           \* how the last step of getLocationKey ended

vars == <<candidate, baseData, pc, validatedData, deltaValues,
          callee, args, result, plugin, service, loop, vessel, event,
          client, network, reply>>

serviceVars == <<plugin, service, loop, vessel, event>>

clientVars == <<client, network, reply>>

callVars == <<candidate, baseData, pc, validatedData, callee, args, result>>

----------------------------------------------------------------------------
(* JavaScript values *)

Undefined == [t |-> "undefined", v |-> 0, s |-> ""]
Null == [t |-> "null", v |-> 0, s |-> ""]
NaN == [t |-> "NaN", v |-> 0, s |-> ""]
PosInfinity == [t |-> "Infinity", v |-> 0, s |-> ""]
NegInfinity == [t |-> "-Infinity", v |-> 0, s |-> ""]
Num(n) == [t |-> "number", v |-> n, s |-> ""]
Str(text) == [t |-> "string", v |-> 0, s |-> text]
NumStr(n) == [t |-> "string", v |-> n, s |-> "#"]

\* typeof x
TypeOf(x) ==
  IF x.t \in {"number", "NaN", "Infinity", "-Infinity"} THEN "number"
  ELSE IF x.t = "null" THEN "object" ELSE x.t

\* typeof x === "number" && !Number.isNaN(x) && Number.isFinite(x)
IsFiniteNumber(x) == x.t = "number"

\* the truthiness test of `if (x)`
Truthy(x) ==
  CASE x.t = "undefined" -> FALSE
    [] x.t = "null" -> FALSE
    [] x.t = "NaN" -> FALSE
    [] x.t = "number" -> x.v # 0
    [] x.t = "string" -> x.s # ""
    [] OTHER -> TRUE

\* the ToNumber conversion Math.min, Math.max, %, > and -= apply to an operand
ToNumber(x) ==
  CASE x.t = "undefined" -> NaN
    [] x.t = "null" -> Num(0)
    [] x.t = "string" -> IF x.s = "" THEN Num(0)
                         ELSE IF x.s = "#" THEN Num(x.v) ELSE NaN
    [] OTHER -> x

\* a < b on numbers (false when either is NaN)
NumLess(a, b) ==
  CASE a.t = "NaN" \/ b.t = "NaN" -> FALSE
    [] a.t = "-Infinity" -> b.t # "-Infinity"
    [] a.t = "Infinity" -> FALSE
    [] b.t = "Infinity" -> TRUE
    [] b.t = "-Infinity" -> FALSE
    [] OTHER -> a.v < b.v

\* Math.min(a, b), Math.max(a, b)
MathMin(a, b) ==
  LET x == ToNumber(a)
      y == ToNumber(b)
  IN  IF x.t = "NaN" \/ y.t = "NaN" THEN NaN
      ELSE IF NumLess(y, x) THEN y ELSE x

MathMax(a, b) ==
  LET x == ToNumber(a)
      y == ToNumber(b)
  IN  IF x.t = "NaN" \/ y.t = "NaN" THEN NaN
      ELSE IF NumLess(x, y) THEN y ELSE x

----------------------------------------------------------------------------
(* Weather-data objects: functions from the own property names to values *)

FieldNames ==
  {"temperature", "dewPoint", "windChill", "heatIndex", "pressure",
   "humidity", "windSpeed", "windDirection", "apparentWindSpeed",
   "apparentWindAngle", "description"}

EmptyObject == [f \in {} |-> Undefined]

\* o.f: undefined for a property the object does not have
Get(o, f) == IF f \in DOMAIN o THEN o[f] ELSE Undefined

\* o.f = x
Put(o, f, x) == [g \in DOMAIN o \cup {f} |-> IF g = f THEN x ELSE o[g]]

\* delete o.f
Remove(o, f) == [g \in DOMAIN o \ {f} |-> o[g]]

\* the argument of a call is an object or a primitive
Obj(o) == [t |-> "object", o |-> o, v |-> 0, s |-> ""]
Prim(x) == [t |-> x.t, o |-> EmptyObject, v |-> x.v, s |-> x.s]
AsValue(a) == [t |-> a.t, v |-> a.v, s |-> a.s]

\* the own enumerable properties { ...a } copies: those of an object, the
\* characters of a string by index, none of any other primitive
Spread(a) ==
  IF a.t = "object" THEN a.o
  ELSE IF a.t = "string" /\ a.s # "" /\ a.s # "#" THEN [i \in {"0"} |-> Str(a.s)]
  ELSE EmptyObject

----------------------------------------------------------------------------
(* NMEA2000PathMapper.validateNMEA2000Ranges *)

TempMin == 23315
TempMax == 35815
PressureMin == 80000
PressureMax == 120000
HumidityMin == 0
HumidityMax == 100
WindSpeedMin == 0
WindSpeedMax == 1023
\* Math.PI in the unit of the angles
Pi == 8
TwoPi == 2 * Pi

\* Math.max(lo, Math.min(hi, x))
Clamp(lo, hi, x) == MathMax(Num(lo), MathMin(Num(hi), x))

\* a % b of JavaScript, b > 0: the remainder has the sign of the dividend
JsRem(a, b) == IF a >= 0 THEN a % b ELSE 0 - ((0 - a) % b)

\* mutant: the direction is clipped to the bounds instead of wrapped
WrapDirection_clipped(x) == Clamp(0, TwoPi, x)

\* ((x % (2 * Math.PI)) + 2 * Math.PI) % (2 * Math.PI)
WrapDirection(x) ==
  LET n == ToNumber(x)
  IN  IF n.t = "number" THEN Num(JsRem(JsRem(n.v, TwoPi) + TwoPi, TwoPi))
      ELSE NaN

\* while (a > Math.PI) a -= 2 * Math.PI
RECURSIVE WhileAbove(_)
WhileAbove(a) == IF a > Pi THEN WhileAbove(a - TwoPi) ELSE a

\* while (a < -Math.PI) a += 2 * Math.PI
RECURSIVE WhileBelow(_)
WhileBelow(a) == IF a < 0 - Pi THEN WhileBelow(a + TwoPi) ELSE a

\* mutant: each loop is an `if`, 2 pi is taken off or added at most once
NormalizeApparentAngle_once(x) ==
  LET n == ToNumber(x)
      a == IF n.v > Pi THEN n.v - TwoPi ELSE n.v
      r == IF a < 0 - Pi THEN a + TwoPi ELSE a
  IN  IF n.t = "number" /\ r # n.v THEN Num(r) ELSE x

\* the two loops on validated.apparentWindAngle.  A loop that never runs
\* leaves the property as it was (a numeric string stays a string, NaN
\* compares false); the first -= or += turns it into a number.
NormalizeApparentAngle(x) ==
  LET n == ToNumber(x)
  IN  IF n.t = "number"
      THEN LET r == WhileBelow(WhileAbove(n.v))
           IN  IF r = n.v THEN x ELSE Num(r)
      ELSE x

\* The loops do not terminate on +-Infinity: Infinity - 2 * Math.PI is
\* Infinity again.
LoopsForever(x) == Truthy(x) /\ ToNumber(x).t \in {"Infinity", "-Infinity"}

ClampField(o, f, lo, hi) ==
  IF Truthy(Get(o, f)) THEN Put(o, f, Clamp(lo, hi, Get(o, f))) ELSE o

validateNMEA2000Ranges(w) ==
  IF ~Truthy(AsValue(w)) /\ w.t # "object" THEN EmptyObject
  ELSE
    LET v0 == Spread(w)
        v1 == ClampField(v0, "temperature", TempMin, TempMax)
        v2 == ClampField(v1, "pressure", PressureMin, PressureMax)
        v3 == ClampField(v2, "humidity", HumidityMin, HumidityMax)
        v4 == ClampField(v3, "windSpeed", WindSpeedMin, WindSpeedMax)
        v5 == ClampField(v4, "apparentWindSpeed", WindSpeedMin, WindSpeedMax)
        v6 == IF Truthy(Get(v5, "windDirection"))
              THEN Put(v5, "windDirection", WrapDirection(Get(v5, "windDirection")))
              ELSE v5
    IN  IF Truthy(Get(v6, "apparentWindAngle"))
        THEN Put(v6, "apparentWindAngle",
                 NormalizeApparentAngle(Get(v6, "apparentWindAngle")))
        ELSE v6

\* mutant: the rules are applied to the caller's object itself
InputAfterValidate_inPlace(w) ==
  IF w.t = "object" THEN [w EXCEPT !.o = validateNMEA2000Ranges(w)] ELSE w

\* const validated = { ...weatherData }: every assignment goes to the copy,
\* so the caller's weatherData is after the call what it was before
InputAfterValidate(w) == w

\* validateNMEA2000Ranges(w) does not return
validateDiverges(w) ==
  /\ Truthy(AsValue(w)) \/ w.t = "object"
  /\ LoopsForever(Get(Spread(w), "apparentWindAngle"))

----------------------------------------------------------------------------
(* Float: the numbers the derived quantities are computed on.              *)
(* [k |-> "fin", m, e] is m * 10^e with a five-digit mantissa              *)
(* (10000 <= |m| <= 99999, or m = 0); k = "nan", "pinf", "ninf" are NaN     *)
(* and the infinities.  A result beyond the largest double (1.797e308)     *)
(* is an infinity, one below the smallest (4.9e-324) is 0, as in IEEE 754. *)

FNaN == [k |-> "nan", m |-> 0, e |-> 0]
FPosInf == [k |-> "pinf", m |-> 0, e |-> 0]
FNegInf == [k |-> "ninf", m |-> 0, e |-> 0]
FZero == [k |-> "fin", m |-> 0, e |-> 0]

Abs(n) == IF n < 0 THEN 0 - n ELSE n
Sign(n) == IF n < 0 THEN 0 - 1 ELSE 1
\* integer division rounding toward zero
Quot(a, b) == Sign(a) * Sign(b) * (Abs(a) \div Abs(b))

\* 10^n, n = 0 .. 9
Pow10(n) ==
  CASE n <= 0 -> 1 [] n = 1 -> 10 [] n = 2 -> 100 [] n = 3 -> 1000
    [] n = 4 -> 10000 [] n = 5 -> 100000 [] n = 6 -> 1000000
    [] n = 7 -> 10000000 [] n = 8 -> 100000000 [] OTHER -> 1000000000

\* the number of decimal digits of n > 0
Digits(n) ==
  IF n < 100000
  THEN IF n < 100 THEN (IF n < 10 THEN 1 ELSE 2)
       ELSE IF n < 1000 THEN 3 ELSE IF n < 10000 THEN 4 ELSE 5
  ELSE IF n < 10000000 THEN (IF n < 1000000 THEN 6 ELSE 7)
       ELSE IF n < 100000000 THEN 8 ELSE IF n < 1000000000 THEN 9 ELSE 10

FInf(sign) == IF sign < 0 THEN FNegInf ELSE FPosInf

\* m * 10^e with the mantissa cut to five digits, and the range of a double
FNorm(m, e) ==
  IF m = 0 THEN FZero
  ELSE
    LET shift == Digits(Abs(m)) - 5
        mant == IF shift > 0 THEN Quot(m, Pow10(shift)) ELSE m * Pow10(0 - shift)
        ex == e + shift
    IN  IF ex + 4 > 308 \/ (ex + 4 = 308 /\ Abs(mant) > 17976) THEN FInf(m)
        ELSE IF ex + 4 < 0 - 324 THEN FZero
        ELSE [k |-> "fin", m |-> mant, e |-> ex]

\* the literal m * 10^e
F(m, e) == FNorm(m, e)

FIsFinite(a) == a.k = "fin"
FIsZero(a) == a.k = "fin" /\ a.m = 0
FSign(a) == IF a.k = "ninf" \/ (a.k = "fin" /\ a.m < 0) THEN 0 - 1 ELSE 1
FNeg(a) ==
  CASE a.k = "pinf" -> FNegInf
    [] a.k = "ninf" -> FPosInf
    [] a.k = "nan" -> FNaN
    [] OTHER -> [k |-> "fin", m |-> 0 - a.m, e |-> a.e]

\* a * b
FMul(a, b) ==
  CASE a.k = "nan" \/ b.k = "nan" -> FNaN
    [] a.k # "fin" \/ b.k # "fin" ->
         IF FIsZero(a) \/ FIsZero(b) THEN FNaN ELSE FInf(FSign(a) * FSign(b))
    [] OTHER -> FNorm(a.m * Quot(b.m, 10), a.e + b.e + 1)

\* a / b
FDiv(a, b) ==
  CASE a.k = "nan" \/ b.k = "nan" -> FNaN
    [] a.k # "fin" -> IF b.k # "fin" THEN FNaN ELSE FInf(FSign(a) * FSign(b))
    [] b.k # "fin" -> FZero
    [] b.m = 0 -> IF a.m = 0 THEN FNaN ELSE FInf(FSign(a))
    [] OTHER -> FNorm(Quot(a.m * 10000, Quot(b.m, 10)), a.e - b.e - 5)

\* a + b of two finite numbers, a.e >= b.e
FAddFinite(a, b) ==
  LET d == a.e - b.e
      u == IF d < 4 THEN d ELSE 4
  IN  IF a.m = 0 THEN b
      ELSE IF b.m = 0 \/ d > 9 THEN a
      ELSE FNorm(a.m * Pow10(u) + Quot(b.m, Pow10(d - u)), a.e - u)

\* a + b
FAdd(a, b) ==
  CASE a.k = "nan" \/ b.k = "nan" -> FNaN
    [] a.k # "fin" -> IF b.k # "fin" /\ b.k # a.k THEN FNaN ELSE a
    [] b.k # "fin" -> b
    [] OTHER -> IF a.e >= b.e THEN FAddFinite(a, b) ELSE FAddFinite(b, a)

\* a - b
FSub(a, b) == FAdd(a, FNeg(b))

\* a < 0, a <= 0 (false for NaN)
FNegative(a) == a.k = "ninf" \/ (a.k = "fin" /\ a.m < 0)
FNonPositive(a) == a.k = "ninf" \/ (a.k = "fin" /\ a.m <= 0)

\* a finite number in thousandths, for |a| < 10^5
FMilli(a) ==
  IF a.e + 3 >= 0 THEN a.m * Pow10(a.e + 3)
  ELSE IF a.e + 3 < 0 - 9 THEN 0
  ELSE Quot(a.m, Pow10(0 - (a.e + 3)))

\* 10^(k/10) in units of 1/10000, k = 0 .. 9
Pow10Tenth(k) ==
  CASE k = 0 -> 10000 [] k = 1 -> 12589 [] k = 2 -> 15849 [] k = 3 -> 19953
    [] k = 4 -> 25119 [] k = 5 -> 31623 [] k = 6 -> 39811 [] k = 7 -> 50119
    [] k = 8 -> 63096 [] OTHER -> 79433

\* Math.exp(a) = 10^(a * log10(e)): Infinity above 709.78, 0 below -745.13
FExp(a) ==
  CASE a.k = "nan" -> FNaN
    [] a.k = "pinf" -> FPosInf
    [] a.k = "ninf" -> FZero
    [] a.m = 0 -> F(1, 0)
    [] a.e >= 0 - 1 -> IF a.m > 0 THEN FPosInf ELSE FZero
    [] OTHER ->
         LET x == FMilli(a)
             y == IF Abs(x) < 400000 THEN (x * 4343) \div 10000
                  ELSE ((x \div 10) * 4343) \div 1000
             n == y \div 1000
             f == y % 1000
             r == f % 100
             c == 100000 + ((23026 * r) \div 100) + ((265 * r * r) \div 1000)
         IN  IF x > 709782 THEN FPosInf
             ELSE IF x < 0 - 745133 THEN FZero
             ELSE FNorm((Pow10Tenth(f \div 100) * (c \div 10)) \div 10000, n - 4)

----------------------------------------------------------------------------
(* NMEA2000PathMapper: defaults, getValueOrDefault, derived quantities *)

\* this.defaults; a type it does not list reads as undefined
defaults(type) ==
  CASE type = "temperature" -> Num(27315)
    [] type = "pressure" -> Num(101325)
    [] type = "humidity" -> Num(50)
    [] type = "windSpeed" -> Num(0)
    [] type = "windDirection" -> Num(0)
    [] type = "dewPoint" -> Num(27315)
    [] type = "windChill" -> Num(27315)
    [] type = "heatIndex" -> Num(27315)
    [] OTHER -> Undefined

\* mutant: only the type of the value is tested
getValueOrDefault_typeofOnly(value, type) ==
  IF TypeOf(value) = "number" THEN value ELSE defaults(type)

\* mutant: value || default
getValueOrDefault_falsy(value, type) ==
  IF Truthy(value) /\ IsFiniteNumber(value) THEN value ELSE defaults(type)

getValueOrDefault(value, type) ==
  IF TypeOf(value) = "number" /\ value.t # "NaN" /\ IsFiniteNumber(value)
  THEN value
  ELSE IF TypeOf(defaults(type)) = "number" /\ defaults(type).t # "NaN"
          /\ IsFiniteNumber(defaults(type))
       THEN defaults(type)
       ELSE Num(0)

\* a number of JavaScript, held in units of 10^-scale, as a Float
ToFloat(x, scale) ==
  CASE x.t = "number" -> FNorm(x.v, 0 - scale)
    [] x.t = "Infinity" -> FPosInf
    [] x.t = "-Infinity" -> FNegInf
    [] OTHER -> FNaN

\* 6.112 * Math.exp((17.27 * tempC) / (237.7 + tempC)), in hPa
SaturationPressure(tempC) ==
  FMul(F(6112, 0 - 3),
       FExp(FDiv(FMul(F(1727, 0 - 2), tempC), FAdd(F(2377, 0 - 1), tempC))))

\* temperatureK in 1/100 K, relativeHumidity in 1/100; the result in kg/m3
calculateAbsoluteHumidity(temperatureK, relativeHumidity) ==
  IF \/ TypeOf(temperatureK) # "number"
     \/ TypeOf(relativeHumidity) # "number"
     \/ ~IsFiniteNumber(temperatureK)
     \/ ~IsFiniteNumber(relativeHumidity)
     \/ temperatureK.v <= 0
     \/ relativeHumidity.v < 0
  THEN FZero
  ELSE
    LET T == ToFloat(temperatureK, 2)
        tempC == FSub(T, F(27315, 0 - 2))
        saturationPressure == SaturationPressure(tempC)
        vaporPressure == FMul(ToFloat(relativeHumidity, 2), saturationPressure)
        absoluteHumidity == FDiv(FMul(F(2166, 0 - 6), vaporPressure), T)
    IN  IF ~FIsFinite(absoluteHumidity) \/ FNegative(absoluteHumidity)
        THEN FZero
        ELSE absoluteHumidity

\* the density the formula gives, before it is validated
AirDensityFormula(temperatureK, pressurePa, relativeHumidity) ==
  LET T == ToFloat(temperatureK, 2)
      R_d == F(2870531, 0 - 4)
      R_v == F(4614964, 0 - 4)
      tempC == FSub(T, F(27315, 0 - 2))
      saturationPressure == FMul(SaturationPressure(tempC), F(100, 0))
      \* (relativeHumidity || 0) * saturationPressure
      rh == IF Truthy(relativeHumidity)
            THEN ToFloat(ToNumber(relativeHumidity), 2) ELSE FZero
      vaporPressure == FMul(rh, saturationPressure)
      dryAirPressure == FSub(ToFloat(pressurePa, 0), vaporPressure)
  IN  FAdd(FDiv(dryAirPressure, FMul(R_d, T)),
           FDiv(vaporPressure, FMul(R_v, T)))

\* mutant: the computed density is returned as it is
calculateAirDensity_unchecked(temperatureK, pressurePa, relativeHumidity) ==
  IF \/ TypeOf(temperatureK) # "number"
     \/ TypeOf(pressurePa) # "number"
     \/ ~IsFiniteNumber(temperatureK)
     \/ ~IsFiniteNumber(pressurePa)
     \/ temperatureK.v <= 0
     \/ pressurePa.v <= 0
  THEN F(1225, 0 - 3)
  ELSE AirDensityFormula(temperatureK, pressurePa, relativeHumidity)

\* temperatureK in 1/100 K, pressurePa in Pa, relativeHumidity in 1/100
calculateAirDensity(temperatureK, pressurePa, relativeHumidity) ==
  IF \/ TypeOf(temperatureK) # "number"
     \/ TypeOf(pressurePa) # "number"
     \/ ~IsFiniteNumber(temperatureK)
     \/ ~IsFiniteNumber(pressurePa)
     \/ temperatureK.v <= 0
     \/ pressurePa.v <= 0
  THEN F(1225, 0 - 3)
  ELSE
    LET density == AirDensityFormula(temperatureK, pressurePa, relativeHumidity)
    IN  IF ~FIsFinite(density) \/ FNonPositive(density)
        THEN F(1225, 0 - 3)
        ELSE density

----------------------------------------------------------------------------
(* NMEA2000PathMapper.mapToSignalKPaths *)

\* one element of values: the timestamp, the same new Date().toISOString()
\* in every element, and the display texts of meta are left out
Entry(path, value, units) == [path |-> path, value |-> value, units |-> units]

\* the sixteen values.push(...) before the weather description
PushedValues(weatherData) ==
        << Entry("environment.outside.temperature",
                 getValueOrDefault(Get(weatherData, "temperature"), "temperature"), "K"),
           Entry("environment.outside.dewPointTemperature",
                 getValueOrDefault(Get(weatherData, "dewPoint"), "dewPoint"), "K"),
           Entry("environment.outside.apparentTemperature",
                 getValueOrDefault(Get(weatherData, "heatIndex"), "heatIndex"), "K"),
           Entry("environment.outside.windChillTemperature",
                 getValueOrDefault(Get(weatherData, "windChill"), "windChill"), "K"),
           Entry("environment.outside.theoreticalWindChillTemperature",
                 getValueOrDefault(Get(weatherData, "windChill"), "windChill"), "K"),
           Entry("environment.outside.heatIndexTemperature",
                 getValueOrDefault(Get(weatherData, "heatIndex"), "heatIndex"), "K"),
           Entry("environment.outside.pressure",
                 getValueOrDefault(Get(weatherData, "pressure"), "pressure"), "Pa"),
           Entry("environment.outside.relativeHumidity",
                 getValueOrDefault(Get(weatherData, "humidity"), "humidity"), "ratio"),
           Entry("environment.wind.speedTrue",
                 getValueOrDefault(Get(weatherData, "windSpeed"), "windSpeed"), "m/s"),
           Entry("environment.wind.directionTrue",
                 getValueOrDefault(Get(weatherData, "windDirection"), "windDirection"), "rad"),
           Entry("environment.wind.speedApparent",
                 getValueOrDefault(Get(weatherData, "apparentWindSpeed"), "windSpeed"), "m/s"),
           Entry("environment.wind.angleApparent",
                 getValueOrDefault(Get(weatherData, "apparentWindAngle"), "windDirection"), "rad"),
           Entry("environment.wind.speedOverGround",
                 getValueOrDefault(Get(weatherData, "windSpeed"), "windSpeed"), "m/s"),
           Entry("environment.wind.angleTrueWater",
                 getValueOrDefault(Get(weatherData, "windDirection"), "windDirection"), "rad"),
           Entry("environment.outside.absoluteHumidity",
                 calculateAbsoluteHumidity(
                   getValueOrDefault(Get(weatherData, "temperature"), "temperature"),
                   getValueOrDefault(Get(weatherData, "humidity"), "humidity")), "kg/m3"),
           Entry("environment.outside.airDensity",
                 calculateAirDensity(
                   getValueOrDefault(Get(weatherData, "temperature"), "temperature"),
                   getValueOrDefault(Get(weatherData, "pressure"), "pressure"),
                   getValueOrDefault(Get(weatherData, "humidity"), "humidity")), "kg/m3") >>

\* if (!weatherData || typeof weatherData !== "object") weatherData = {}
ArgOrEmpty(arg) ==
  IF ~Truthy(AsValue(arg)) \/ arg.t # "object" THEN EmptyObject ELSE arg.o

\* values, once the weather description is pushed if (weatherData.description)
ValuesOf(weatherData) ==
  IF Truthy(Get(weatherData, "description"))
  THEN Append(PushedValues(weatherData),
              Entry("environment.outside.weatherDescription",
                    Get(weatherData, "description"), ""))
  ELSE PushedValues(weatherData)

\* mutant: a parameter whose property is missing is left out of the batch
mapToSignalKPaths_omitMissing(arg) ==
  SelectSeq(ValuesOf(ArgOrEmpty(arg)),
            LAMBDA e : \/ e.path # "environment.outside.temperature"
                       \/ "temperature" \in DOMAIN ArgOrEmpty(arg))

\* mutant: the description is pushed without the test of its content
mapToSignalKPaths_alwaysDescribes(arg) ==
  Append(PushedValues(ArgOrEmpty(arg)),
         Entry("environment.outside.weatherDescription",
               Get(ArgOrEmpty(arg), "description"), ""))

\* mutant: the theoretical wind chill is taken from the air temperature
mapToSignalKPaths_aliasDrift(arg) ==
  [ValuesOf(ArgOrEmpty(arg)) EXCEPT
     ![5].value = getValueOrDefault(Get(ArgOrEmpty(arg), "temperature"), "temperature")]

\* mutant: without a usable temperature nothing of the observation is used
mapToSignalKPaths_blocked(arg) ==
  IF IsFiniteNumber(Get(ArgOrEmpty(arg), "temperature"))
  THEN ValuesOf(ArgOrEmpty(arg))
  ELSE ValuesOf(EmptyObject)

\* updates[0].values of the delta mapToSignalKPaths returns
mapToSignalKPaths(arg) == ValuesOf(ArgOrEmpty(arg))

----------------------------------------------------------------------------
(* Math.sqrt, Math.log, ** and comparisons on Float                        *)

\* the integer square root, n < 2^31, by Newton's iteration from above
RECURSIVE ISqrtFrom(_, _)
ISqrtFrom(n, x) ==
  LET y == (x + n \div x) \div 2
  IN  IF y >= x THEN x ELSE ISqrtFrom(n, y)

ISqrt(n) == IF n <= 0 THEN 0 ELSE ISqrtFrom(n, 46341)

\* Math.sqrt(a)
FSqrt(a) ==
  CASE a.k = "nan" \/ a.k = "ninf" -> FNaN
    [] a.k = "pinf" -> FPosInf
    [] a.m = 0 -> FZero
    [] a.m < 0 -> FNaN
    [] a.e % 2 = 0 -> FNorm(ISqrt(a.m * 10000), (a.e - 4) \div 2)
    [] OTHER -> FNorm(ISqrt(a.m * 1000), (a.e - 3) \div 2)

\* ln(d), ln(1 + j/10) in units of 1/100000, d = 1 .. 9, j = 0 .. 9
LnDigit(d) ==
  CASE d = 1 -> 0 [] d = 2 -> 69315 [] d = 3 -> 109861 [] d = 4 -> 138629
    [] d = 5 -> 160944 [] d = 6 -> 179176 [] d = 7 -> 194591
    [] d = 8 -> 207944 [] OTHER -> 219722

LnTenth(j) ==
  CASE j = 0 -> 0 [] j = 1 -> 9531 [] j = 2 -> 18232 [] j = 3 -> 26236
    [] j = 4 -> 33647 [] j = 5 -> 40547 [] j = 6 -> 47000 [] j = 7 -> 53063
    [] j = 8 -> 58779 [] OTHER -> 64185

\* Math.log(a): the mantissa is d * (1 + j/10) * (1 + x) with x < 0.1, and
\* ln(1 + x) = x - x^2/2 + x^3/3
FLn(a) ==
  CASE a.k = "nan" \/ a.k = "ninf" -> FNaN
    [] a.k = "pinf" -> FPosInf
    [] a.m = 0 -> FNegInf
    [] a.m < 0 -> FNaN
    [] OTHER ->
         LET d == a.m \div 10000
             f == a.m \div d
             j == (f - 10000) \div 1000
             x == (f * 10) \div (10 + j) - 10000
             ln == LnDigit(d) + LnTenth(j) + 10 * x - (x * x) \div 2000
                     + (x * x * x) \div 30000000
         IN  FNorm(ln + (a.e + 4) * 230259, 0 - 5)

\* a ** b = Math.exp(b * Math.log(a)), a >= 0 or NaN
FPow(a, b) == IF FIsZero(a) THEN FZero ELSE FExp(FMul(b, FLn(a)))

\* a < b, a >= b (both false when either is NaN)
FLess(a, b) ==
  CASE a.k = "nan" \/ b.k = "nan" -> FALSE
    [] a.k = b.k /\ a.k # "fin" -> FALSE
    [] OTHER -> FNegative(FSub(a, b))

FAtLeast(a, b) == a.k # "nan" /\ b.k # "nan" /\ ~FLess(a, b)

\* Math.abs(a)
FAbs(a) == IF FNegative(a) THEN FNeg(a) ELSE a

\* the Float as a number of JavaScript in units of 10^-scale, cut toward zero
FromFloat(a, scale) ==
  CASE a.k = "nan" -> NaN
    [] a.k = "pinf" -> PosInfinity
    [] a.k = "ninf" -> NegInfinity
    [] a.e + scale >= 0 -> Num(a.m * Pow10(a.e + scale))
    [] a.e + scale < 0 - 9 -> Num(0)
    [] OTHER -> Num(Quot(a.m, Pow10(0 - (a.e + scale))))

----------------------------------------------------------------------------
(* WindCalculator: wind chill, heat index, dew point                       *)
(* Temperatures are numbers in 1/100 K, wind speeds in 1/10 m/s, relative  *)
(* humidity in 1/100; a computed result is cut to 1/100 K.                 *)

\* kelvinToCelsius, celsiusToKelvin, kelvinToFahrenheit, fahrenheitToKelvin
kelvinToCelsius(kelvin) == FSub(kelvin, F(27315, 0 - 2))
celsiusToKelvin(celsius) == FAdd(celsius, F(27315, 0 - 2))
kelvinToFahrenheit(kelvin) ==
  FAdd(FDiv(FMul(FSub(kelvin, F(27315, 0 - 2)), F(9, 0)), F(5, 0)), F(32, 0))
fahrenheitToKelvin(fahrenheit) ==
  FAdd(FDiv(FMul(FSub(fahrenheit, F(32, 0)), F(5, 0)), F(9, 0)), F(27315, 0 - 2))

\* 13.12 + 0.6215 * tempC - 11.37 * windKmh ** 0.16
\*   + 0.3965 * tempC * windKmh ** 0.16
WindChillRegression(tempC, windKmh) ==
  LET p == FPow(windKmh, F(16, 0 - 2))
  IN  FAdd(FSub(FAdd(F(1312, 0 - 2), FMul(F(6215, 0 - 4), tempC)),
                FMul(F(1137, 0 - 2), p)),
           FMul(FMul(F(3965, 0 - 4), tempC), p))

calculateWindChill(temperatureK, windSpeedMs) ==
  IF TypeOf(temperatureK) # "number" \/ TypeOf(windSpeedMs) # "number"
  THEN temperatureK
  ELSE
    LET tempC == kelvinToCelsius(ToFloat(temperatureK, 2))
        windKmh == FMul(ToFloat(windSpeedMs, 1), F(36, 0 - 1))
    IN  IF FAtLeast(tempC, F(10, 0)) \/ FLess(windKmh, F(48, 0 - 1))
        THEN temperatureK
        ELSE FromFloat(celsiusToKelvin(WindChillRegression(tempC, windKmh)), 2)

\* the Rothfusz regression c1 + c2 t + c3 r + c4 t r + c5 t t + c6 r r
\*   + c7 t t r + c8 t r r + c9 t t r r
Rothfusz(t, r) ==
  LET tt == FMul(t, t)
      rr == FMul(r, r)
      s1 == FAdd(F(0 - 42379, 0 - 3), FMul(F(20490, 0 - 4), t))
      s2 == FAdd(s1, FMul(F(10143, 0 - 3), r))
      s3 == FAdd(s2, FMul(FMul(F(0 - 22476, 0 - 5), t), r))
      s4 == FAdd(s3, FMul(F(0 - 68378, 0 - 7), tt))
      s5 == FAdd(s4, FMul(F(0 - 54817, 0 - 6), rr))
      s6 == FAdd(s5, FMul(FMul(F(12287, 0 - 7), tt), r))
      s7 == FAdd(s6, FMul(FMul(F(85282, 0 - 8), t), rr))
  IN  FAdd(s7, FMul(FMul(F(0 - 199, 0 - 8), tt), rr))

\* the two adjustments for extreme conditions
HeatIndexAdjusted(heatIndex, t, r) ==
  IF FLess(r, F(13, 0)) /\ FAtLeast(t, F(80, 0)) /\ FAtLeast(F(112, 0), t)
  THEN FSub(heatIndex,
            FMul(FDiv(FSub(F(13, 0), r), F(4, 0)),
                 FSqrt(FDiv(FSub(F(17, 0), FAbs(FSub(t, F(95, 0)))), F(17, 0)))))
  ELSE IF FLess(F(85, 0), r) /\ FAtLeast(t, F(80, 0)) /\ FAtLeast(F(87, 0), t)
  THEN FAdd(heatIndex,
            FMul(FDiv(FSub(r, F(85, 0)), F(10, 0)),
                 FDiv(FSub(F(87, 0), t), F(5, 0))))
  ELSE heatIndex

\* mutant: the regression starts at 75 F
calculateHeatIndex_from75F(temperatureK, relativeHumidity) ==
  IF TypeOf(temperatureK) # "number" \/ TypeOf(relativeHumidity) # "number"
  THEN temperatureK
  ELSE
    LET tempF == kelvinToFahrenheit(ToFloat(temperatureK, 2))
        rhPercent == FMul(ToFloat(relativeHumidity, 2), F(100, 0))
    IN  IF FLess(tempF, F(75, 0)) \/ FLess(rhPercent, F(40, 0))
        THEN temperatureK
        ELSE FromFloat(fahrenheitToKelvin(
                         HeatIndexAdjusted(Rothfusz(tempF, rhPercent),
                                           tempF, rhPercent)), 2)

calculateHeatIndex(temperatureK, relativeHumidity) ==
  IF TypeOf(temperatureK) # "number" \/ TypeOf(relativeHumidity) # "number"
  THEN temperatureK
  ELSE
    LET tempF == kelvinToFahrenheit(ToFloat(temperatureK, 2))
        rhPercent == FMul(ToFloat(relativeHumidity, 2), F(100, 0))
    IN  IF FLess(tempF, F(80, 0)) \/ FLess(rhPercent, F(40, 0))
        THEN temperatureK
        ELSE FromFloat(fahrenheitToKelvin(
                         HeatIndexAdjusted(Rothfusz(tempF, rhPercent),
                                           tempF, rhPercent)), 2)

\* the Magnus formula on the humidity clamped to [0.01, 0.99]
calculateDewPoint(temperatureK, relativeHumidity) ==
  IF TypeOf(temperatureK) # "number" \/ TypeOf(relativeHumidity) # "number"
  THEN temperatureK
  ELSE
    LET tempC == kelvinToCelsius(ToFloat(temperatureK, 2))
        rh == ToFloat(Clamp(1, 99, relativeHumidity), 2)
        a == F(1727, 0 - 2)
        b == F(2377, 0 - 1)
        gamma == FAdd(FDiv(FMul(a, tempC), FAdd(b, tempC)), FLn(rh))
        dewPointC == FDiv(FMul(b, gamma), FSub(a, gamma))
    IN  FromFloat(celsiusToKelvin(dewPointC), 2)

----------------------------------------------------------------------------
(* WindCalculator: apparent wind                                           *)
(* Headings and directions are multiples of pi/4 (even counts of the unit  *)
(* pi/8), where cosine and sine are 0, +-1 or +-sqrt(2)/2.  A component of *)
(* a wind vector is [k, a, b, c, z]: for k = "fin" it is                   *)
(* (a + b sqrt 2) / 2 in 1/10 m/s, plus c times the residue that           *)
(* Math.cos and Math.sin leave where the exact value is 0 (Math.PI is a    *)
(* little less than pi, so Math.sin(Math.PI) is 1.22e-16 and not 0); c     *)
(* counts it in units of the angle.  z is the sign of a component that is  *)
(* exactly zero (+0 or -0); k = "nan", "pinf", "ninf" as for Float.        *)

CNaN == [k |-> "nan", a |-> 0, b |-> 0, c |-> 0, z |-> 1]
CInf(sign) == [k |-> IF sign < 0 THEN "ninf" ELSE "pinf",
               a |-> 0, b |-> 0, c |-> 0, z |-> 1]
CFin(a, b, c, z) == [k |-> "fin", a |-> a, b |-> b, c |-> c, z |-> z]

\* the sign of a + b sqrt 2: -1, 0 or 1
SignSqrt2(a, b) ==
  CASE a = 0 /\ b = 0 -> 0
    [] a >= 0 /\ b >= 0 -> 1
    [] a <= 0 /\ b <= 0 -> 0 - 1
    [] a > 0 -> IF a * a > 2 * b * b THEN 1 ELSE 0 - 1
    [] OTHER -> IF 2 * b * b > a * a THEN 1 ELSE 0 - 1

\* the sign of a finite component: of its value, else of its residue, else
\* of its zero
CSign(p) ==
  IF p.a # 0 \/ p.b # 0 THEN SignSqrt2(p.a, p.b)
  ELSE IF p.c # 0 THEN Sign(p.c) ELSE p.z

\* Math.cos and Math.sin of t * pi/8, t even, as components of a unit vector
CosSlot(t) ==
  LET m == (t \div 2) % 8
  IN  CASE m = 0 -> CFin(2, 0, 0, 1)
        [] m \in {1, 7} -> CFin(0, 1, 0, 1)
        [] m = 2 -> CFin(0, 0, t, 1)
        [] m \in {3, 5} -> CFin(0, 0 - 1, 0, 1)
        [] m = 4 -> CFin(0 - 2, 0, 0, 1)
        [] OTHER -> CFin(0, 0, 0 - t, 1)

SinSlot(t) ==
  LET m == (t \div 2) % 8
  IN  CASE m = 0 -> CFin(0, 0, 0 - t, 1)
        [] m \in {1, 3} -> CFin(0, 1, 0, 1)
        [] m = 2 -> CFin(2, 0, 0, 1)
        [] m = 4 -> CFin(0, 0, t, 1)
        [] m \in {5, 7} -> CFin(0, 0 - 1, 0, 1)
        [] OTHER -> CFin(0 - 2, 0, 0, 1)

\* Math.cos(x), Math.sin(x) of a value of JavaScript
MathCos(x) == IF ToNumber(x).t = "number" THEN CosSlot(ToNumber(x).v) ELSE CNaN
MathSin(x) == IF ToNumber(x).t = "number" THEN SinSlot(ToNumber(x).v) ELSE CNaN

\* speed * Math.cos(...), speed a value of type number
Times(speed, trig) ==
  CASE speed.t = "NaN" \/ trig.k = "nan" -> CNaN
    [] speed.t = "Infinity" ->
         IF trig.a = 0 /\ trig.b = 0 /\ trig.c = 0 THEN CNaN ELSE CInf(CSign(trig))
    [] speed.t = "-Infinity" ->
         IF trig.a = 0 /\ trig.b = 0 /\ trig.c = 0 THEN CNaN ELSE CInf(0 - CSign(trig))
    [] OTHER -> CFin(speed.v * trig.a, speed.v * trig.b, speed.v * trig.c,
                     Sign(speed.v) * CSign(trig))

IsZero(p) == p.k = "fin" /\ p.a = 0 /\ p.b = 0 /\ p.c = 0

\* p - q
Minus(p, q) ==
  CASE p.k = "nan" \/ q.k = "nan" -> CNaN
    [] p.k # "fin" -> IF q.k = p.k THEN CNaN ELSE p
    [] q.k # "fin" -> CInf(IF q.k = "pinf" THEN 0 - 1 ELSE 1)
    [] OTHER -> CFin(p.a - q.a, p.b - q.b, p.c - q.c,
                     IF IsZero(p) /\ IsZero(q) /\ p.z < 0 /\ q.z > 0
                     THEN 0 - 1 ELSE 1)

\* B * sqrt 2 to the nearest integer or so
Sqrt2Times(n) ==
  LET m == Abs(n)
  IN  Sign(n) * (IF m < 50000 THEN m + (m * 41421) \div 100000
                 ELSE m + ((m \div 1000) * 41421) \div 100)

\* Math.sqrt(x ** 2 + y ** 2), to the nearest 1/10 m/s
Hypot(x, y) ==
  CASE x.k = "nan" \/ y.k = "nan" -> NaN
    [] x.k # "fin" \/ y.k # "fin" -> PosInfinity
    [] OTHER ->
         LET A == x.a * x.a + 2 * x.b * x.b + y.a * y.a + 2 * y.b * y.b
             B == 2 * (x.a * x.b + y.a * y.b)
         IN  Num((ISqrt(A + Sqrt2Times(B)) + 1) \div 2)

\* where in its quadrant the direction of (|x|, |y|) lies, x and y not zero:
\* 1 below the diagonal, 2 on it, 3 above
Octant(cmp) == IF cmp < 0 THEN 1 ELSE IF cmp = 0 THEN 2 ELSE 3

\* the direction of (sx |x|, sy |y|) in units of pi/8; an odd count stands
\* for a direction strictly inside an octant
Direction(sx, sy, cmp, ysign) ==
  CASE sy = 0 /\ sx > 0 -> 0
    [] sy = 0 -> IF ysign < 0 THEN 0 - Pi ELSE Pi
    [] sx = 0 -> IF sy > 0 THEN Pi \div 2 ELSE 0 - (Pi \div 2)
    [] sx > 0 -> sy * Octant(cmp)
    [] OTHER -> sy * (Pi - Octant(cmp))

\* Math.atan2(y, x), in units of pi/8.  The components are compared by
\* their values; where both values are zero, by their residues; where both
\* are exactly zero the signs of the zeros decide.
MathAtan2(y, x) ==
  CASE x.k = "nan" \/ y.k = "nan" -> NaN
    [] x.k # "fin" /\ y.k # "fin" ->
         Num(Direction(IF x.k = "pinf" THEN 1 ELSE 0 - 1,
                       IF y.k = "pinf" THEN 1 ELSE 0 - 1, 0, 1))
    [] x.k # "fin" ->
         Num(Direction(IF x.k = "pinf" THEN 1 ELSE 0 - 1, 0, 0, CSign(y)))
    [] y.k # "fin" ->
         Num(Direction(0, IF y.k = "pinf" THEN 1 ELSE 0 - 1, 0, 1))
    [] x.a # 0 \/ x.b # 0 \/ y.a # 0 \/ y.b # 0 ->
         LET sx == SignSqrt2(x.a, x.b)
             sy == SignSqrt2(y.a, y.b)
         IN  Num(Direction(sx, sy,
                           SignSqrt2(sy * y.a - sx * x.a, sy * y.b - sx * x.b),
                           CSign(y)))
    [] x.c # 0 \/ y.c # 0 ->
         Num(Direction(IF x.c = 0 THEN 0 ELSE Sign(x.c),
                       IF y.c = 0 THEN 0 ELSE Sign(y.c),
                       Abs(y.c) - Abs(x.c), CSign(y)))
    [] OTHER -> Num(IF x.z > 0 THEN 0 ELSE IF y.z > 0 THEN Pi ELSE 0 - Pi)

\* a - b of JavaScript on angles
AngleMinus(a, b) ==
  LET x == ToNumber(a)
      y == ToNumber(b)
  IN  CASE x.t = "NaN" \/ y.t = "NaN" -> NaN
        [] x.t = "number" /\ y.t = "number" -> Num(x.v - y.v)
        [] x.t = y.t -> NaN
        [] x.t = "number" -> IF y.t = "Infinity" THEN NegInfinity ELSE PosInfinity
        [] OTHER -> x

\* the apparent wind vector: true wind minus the velocity of the vessel
ApparentWindX(trueWindSpeed, vesselSpeed, vesselHeading, trueWindDirection) ==
  Minus(Times(trueWindSpeed, MathCos(trueWindDirection)),
        Times(vesselSpeed, MathCos(vesselHeading)))

ApparentWindY(trueWindSpeed, vesselSpeed, vesselHeading, trueWindDirection) ==
  Minus(Times(trueWindSpeed, MathSin(trueWindDirection)),
        Times(vesselSpeed, MathSin(vesselHeading)))

calculateApparentWindSpeed(trueWindSpeed, vesselSpeed, vesselHeading, trueWindDirection) ==
  IF TypeOf(trueWindSpeed) # "number" \/ TypeOf(vesselSpeed) # "number"
  THEN IF Truthy(trueWindSpeed) THEN trueWindSpeed ELSE Num(0)
  ELSE Hypot(ApparentWindX(trueWindSpeed, vesselSpeed, vesselHeading,
                           trueWindDirection),
             ApparentWindY(trueWindSpeed, vesselSpeed, vesselHeading,
                           trueWindDirection))

\* the two loops on relativeAngle; NaN compares false and is left alone
\* (on +-Infinity the loops would not end: the headings here are finite)
NormalizeRelative(r) ==
  IF r.t = "number" THEN Num(WhileBelow(WhileAbove(r.v))) ELSE r

\* mutant: the two loops are left out
calculateApparentWindAngle_unfolded(trueWindSpeed, vesselSpeed, vesselHeading, trueWindDirection) ==
  IF TypeOf(trueWindSpeed) # "number" \/ TypeOf(vesselSpeed) # "number"
  THEN AngleMinus(trueWindDirection, vesselHeading)
  ELSE AngleMinus(MathAtan2(ApparentWindY(trueWindSpeed, vesselSpeed,
                                          vesselHeading, trueWindDirection),
                            ApparentWindX(trueWindSpeed, vesselSpeed,
                                          vesselHeading, trueWindDirection)),
                  vesselHeading)

calculateApparentWindAngle(trueWindSpeed, vesselSpeed, vesselHeading, trueWindDirection) ==
  IF TypeOf(trueWindSpeed) # "number" \/ TypeOf(vesselSpeed) # "number"
  THEN AngleMinus(trueWindDirection, vesselHeading)
  ELSE NormalizeRelative(
         AngleMinus(MathAtan2(ApparentWindY(trueWindSpeed, vesselSpeed,
                                            vesselHeading, trueWindDirection),
                              ApparentWindX(trueWindSpeed, vesselSpeed,
                                            vesselHeading, trueWindDirection)),
                    vesselHeading))

\* weather-utils.normalizeAngle
normalizeAngle(radians) == NormalizeRelative(radians)

----------------------------------------------------------------------------
(* weather-utils: the humidity of an AccuWeather observation               *)
(* A raw humidity is a number in 1/10000, so that a ratio (0.65 is 6500)   *)
(* and a percentage (65 is 650000) are on one scale.                       *)

HumidityOne == 10000

\* percentage / 100; exact on values with two decimals
percentageToRatio(percentage) ==
  IF percentage.t = "number" THEN Num(Quot(percentage.v, 100)) ELSE percentage

convertAccuWeatherHumidity(humidity) ==
  IF TypeOf(humidity) # "number" THEN Null
  ELSE IF humidity.t = "-Infinity"
          \/ (humidity.t = "number" /\ humidity.v <= HumidityOne)
       THEN humidity
       ELSE percentageToRatio(humidity)

----------------------------------------------------------------------------
(* SignalKClient.getVesselCourseOverGroundTrue                             *)
(* What app.getSelfPath returns for a path is undefined or a record        *)
(* [value, source]; the timestamp is left out.                             *)

NoData == [value |-> Undefined, source |-> "", present |-> FALSE]
Data(value, source) == [value |-> value, source |-> source, present |-> TRUE]

\* the sources whose lower-cased name includes "node-red", of those used here
NodeRedSources == {"signalk-node-red", "Node-RED"}

isFromNodeRedSource(data) == data.present /\ data.source \in NodeRedSources

\* !courseData || typeof courseData.value !== "number"
NoNumber(data) == ~data.present \/ TypeOf(data.value) # "number"

\* sources: what getSelfPath returns for courseOverGroundTrue,
\* courseOverGroundMagnetic, headingTrue and headingMagnetic, in this order
getVesselCourseOverGroundTrue(sources) ==
  LET courseData ==
        IF ~NoNumber(sources[1]) THEN sources[1]
        ELSE IF ~NoNumber(sources[2]) THEN sources[2]
        ELSE IF ~NoNumber(sources[3]) THEN sources[3]
        ELSE sources[4]
  IN  IF NoNumber(courseData) THEN Null
      ELSE IF isFromNodeRedSource(courseData) THEN Null
      ELSE IF NumLess(courseData.value, Num(0))
              \/ NumLess(Num(TwoPi), courseData.value)
           THEN Null
           ELSE courseData.value

----------------------------------------------------------------------------
(* SignalKClient.getVesselData and WeatherService.getVesselData            *)
(* The three getters return a value or null; dataAge is left out.          *)

SignalKGetVesselData(position, speedOverGround, courseOverGroundTrue) ==
  [position |-> position,
   speedOverGround |-> speedOverGround,
   courseOverGroundTrue |-> courseOverGroundTrue,
   isComplete |-> /\ Truthy(position)
                  /\ TypeOf(speedOverGround) = "number"
                  /\ TypeOf(courseOverGroundTrue) = "number"]

\* x || 0
OrZero(x) == IF Truthy(x) THEN x ELSE Num(0)

getVesselData(vesselData) ==
  [speedOverGround |-> OrZero(vesselData.speedOverGround),
   courseOverGround |-> OrZero(vesselData.courseOverGroundTrue),
   position |-> vesselData.position,
   isComplete |-> vesselData.isComplete]

\* WeatherService.getPosition: settings is [useVesselPosition,
\* manualLatitude, manualLongitude], vesselPosition what
\* signalkClient.getVesselPosition() returns
getPosition(settings, vesselPosition) ==
  IF settings.useVesselPosition /\ Truthy(vesselPosition)
  THEN Obj([f \in {"latitude", "longitude"} |-> vesselPosition.o[f]])
  ELSE IF Truthy(settings.manualLatitude) /\ Truthy(settings.manualLongitude)
       THEN Obj([f \in {"latitude", "longitude"} |->
                   IF f = "latitude" THEN settings.manualLatitude
                   ELSE settings.manualLongitude])
       ELSE Null

\* mutant: the spread comes last, the values of the provider stay
EnhancedWeatherData_keepProvider(weatherData, vesselData) ==
  LET windSpeed == Get(weatherData, "windSpeed")
      windDirection == Get(weatherData, "windDirection")
      apparentWindSpeed ==
        IF vesselData.isComplete
        THEN calculateApparentWindSpeed(windSpeed, vesselData.speedOverGround,
                                        vesselData.courseOverGround, windDirection)
        ELSE windSpeed
      apparentWindAngle ==
        IF vesselData.isComplete
        THEN calculateApparentWindAngle(windSpeed, vesselData.speedOverGround,
                                        vesselData.courseOverGround, windDirection)
        ELSE Num(0)
  IN  Put(Put(weatherData,
        "apparentWindSpeed", apparentWindSpeed),
        "apparentWindAngle", apparentWindAngle)

\* WeatherService.updateWeatherData, from the weather data received to the
\* assignment of this.currentWeatherData
EnhancedWeatherData(weatherData, vesselData) ==
  LET windSpeed == Get(weatherData, "windSpeed")
      windDirection == Get(weatherData, "windDirection")
      temperature == Get(weatherData, "temperature")
      humidity == Get(weatherData, "humidity")
      apparentWindSpeed ==
        IF vesselData.isComplete
        THEN calculateApparentWindSpeed(windSpeed, vesselData.speedOverGround,
                                        vesselData.courseOverGround, windDirection)
        ELSE windSpeed
      apparentWindAngle ==
        IF vesselData.isComplete
        THEN calculateApparentWindAngle(windSpeed, vesselData.speedOverGround,
                                        vesselData.courseOverGround, windDirection)
        ELSE Num(0)
  IN  Put(Put(Put(Put(Put(weatherData,
        "apparentWindSpeed", apparentWindSpeed),
        "apparentWindAngle", apparentWindAngle),
        "windChill", calculateWindChill(temperature, windSpeed)),
        "heatIndex", calculateHeatIndex(temperature, humidity)),
        "dewPoint", calculateDewPoint(temperature, humidity))

----------------------------------------------------------------------------
(* The inputs: observations varied from a base in at most MaxOverrides     *)
(* properties, and the primitives a caller may pass instead of an object.  *)

MaxOverrides == 1

\* stands for "the property is not there" among the values of a variation
Absent == [t |-> "absent", v |-> 0, s |-> ""]

NonNumbers == {Absent, Null, NaN, PosInfinity, NegInfinity, Str("abc")}

FieldValues(f) ==
  CASE f = "temperature" ->
         NonNumbers \cup {Undefined, NumStr(40000)}
           \cup {Num(n) : n \in {0 - 500, 0, 1000, 3500, 3545, 20000, 28815, 40000}}
    [] f \in {"dewPoint", "windChill", "heatIndex"} ->
         {Absent, NaN, PosInfinity, Str("abc")} \cup {Num(n) : n \in {0, 20000, 40000}}
    [] f = "pressure" ->
         NonNumbers \cup {Num(n) : n \in {0 - 100, 0, 50000, 101325, 150000}}
    [] f = "humidity" ->
         NonNumbers \cup {Num(n) : n \in {0 - 10, 0, 65, 100, 150}}
    [] f \in {"windSpeed", "apparentWindSpeed"} ->
         NonNumbers \cup {Num(n) : n \in {0 - 10, 0, 51, 1023, 1500}}
    [] f = "windDirection" ->
         NonNumbers \cup {Num(n) : n \in {0 - 18, 0 - 16, 0 - 1, 0, 6, 16, 27}}
    [] f = "apparentWindAngle" ->
         NonNumbers \cup {NumStr(2), NumStr(18)}
           \cup {Num(n) : n \in {0 - 24, 0 - 10, 0 - 8, 0 - 6, 0, 8, 9, 26}}
    [] OTHER -> {Absent, Null, Str(""), Str("Sunny")}

\* WeatherService.getMockWeatherData: a complete observation, vessel at rest
TypicalObservation ==
  [f \in FieldNames \ {"description"} |->
     CASE f = "temperature" -> Num(28815)
       [] f = "pressure" -> Num(101325)
       [] f = "humidity" -> Num(65)
       [] f = "windSpeed" -> Num(51)
       [] f = "windDirection" -> Num(4)
       [] f = "dewPoint" -> Num(28315)
       [] f = "windChill" -> Num(28750)
       [] f = "heatIndex" -> Num(28980)
       [] f = "apparentWindSpeed" -> Num(51)
       [] OTHER -> Num(4)]

Bases == {EmptyObject, TypicalObservation}

Vary(o, f, x) == IF x = Absent THEN Remove(o, f) ELSE Put(o, f, x)

\* the number of properties in which two objects differ
Distance(o1, o2) ==
  Cardinality({f \in DOMAIN o1 \cup DOMAIN o2 :
                 \/ f \notin DOMAIN o1
                 \/ f \notin DOMAIN o2
                 \/ o1[f] # o2[f]})

RECURSIVE Varied(_, _)
Varied(b, n) ==
  IF n = 0 THEN {b}
  ELSE LET less == Varied(b, n - 1)
       IN  less \cup UNION {{Vary(o, f, x) : x \in FieldValues(f)} :
                               o \in less, f \in FieldNames}

\* what a caller may pass that is not an object
Primitives == {Prim(Undefined), Prim(Null), Prim(Str("x")), Prim(Num(5))}

----------------------------------------------------------------------------
(* The plugin, its weather service and the timers                          *)
(* The event loop runs any callback that is due: the emission interval     *)
(* (every 5 s), the initial fetch (a timeout, 5 s after start), the update *)
(* interval (every updateFrequency minutes), and the continuation of an    *)
(* updateWeatherData call whose fetch has settled.  How long a fetch takes *)
(* is not bounded by the code (fetch is called without a timeout).         *)

MaxStarts == 2   \* calls of start()
MaxCalls == 2    \* calls of updateWeatherData which reach the fetch

\* plugin/index.js after require(): the variables of the module
PluginInit ==
  [timers |-> {}, weatherService |-> 0, pathMapper |-> FALSE,
   lastWeatherData |-> EmptyObject, emissionTimer |-> 0]

\* new WeatherService(app, settings): the service of the start number id
NewWeatherService(id, settings) ==
  [id |-> id, settings |-> settings, updateTimer |-> 0,
   currentWeatherData |-> EmptyObject, lastUpdate |-> 0, holds |-> 0,
   newest |-> 0]

\* the options of the plugin as start() flattens them
Settings(accuWeatherApiKey, useVesselPosition, manualLatitude, manualLongitude) ==
  [accuWeatherApiKey |-> accuWeatherApiKey,
   useVesselPosition |-> useVesselPosition,
   manualLatitude |-> manualLatitude,
   manualLongitude |-> manualLongitude]

\* the default options, without and with an API key
Configurations ==
  {Settings(Str(""), TRUE, Num(0), Num(0)),
   Settings(Str("key"), TRUE, Num(0), Num(0))}

\* what the Signal K server knows of the vessel: under way on two courses,
\* and without a GPS fix
Vessel(position, speedOverGround, courseOverGroundTrue) ==
  [position |-> position, speedOverGround |-> speedOverGround,
   courseOverGroundTrue |-> courseOverGroundTrue]

Fix == Obj([f \in {"latitude", "longitude"} |->
              IF f = "latitude" THEN Num(4800000) ELSE Num(0 - 12300000)])

VesselStates ==
  {Vessel(Fix, Num(30), Num(0)), Vessel(Fix, Num(30), Num(4)),
   Vessel(Null, Null, Null)}

\* what AccuWeather reports, converted; the data the service makes of it
\* varies with the motion of the vessel
FetchedReports == {TypicalObservation}

ServiceInit ==
  /\ plugin = PluginInit
  /\ service = NewWeatherService(0, Settings(Str(""), TRUE, Num(0), Num(0)))
  /\ loop = [timeouts |-> 0, intervals |-> {}, calls |-> {}, starts |-> 0,
             begun |-> 0]
  /\ event = [kind |-> "none", started |-> FALSE]

Started == plugin.weatherService # 0

\* what happened last, and whether the plugin was started when it happened
Event(kind) == [kind |-> kind, started |-> Started]

EmissionTimer(id) == <<"emission", id>>
UpdateTimer(id) == <<"update", id>>

\* plugin.start(options), with weatherService.start(); the server stops a
\* started plugin before it starts it again
Start ==
  /\ pc = "service"
  /\ ~Started
  /\ loop.starts < MaxStarts
  /\ \E settings \in Configurations :
       LET id == loop.starts + 1
       IN  /\ service' = [NewWeatherService(id, settings)
                            EXCEPT !.updateTimer = UpdateTimer(id)]
           /\ plugin' = [plugin EXCEPT !.weatherService = id,
                                       !.pathMapper = TRUE,
                                       !.emissionTimer = EmissionTimer(id),
                                       !.timers = @ \cup {EmissionTimer(id)}]
           /\ loop' = [loop EXCEPT !.starts = id,
                                   !.timeouts = @ + 1,
                                   !.intervals = @ \cup {UpdateTimer(id),
                                                         EmissionTimer(id)}]
  /\ event' = Event("start")
  /\ UNCHANGED <<vessel, deltaValues>>
  /\ UNCHANGED <<callVars, clientVars>>

\* plugin.stop(), with weatherService.stop()
Stop ==
  /\ pc = "service"
  /\ Started
  /\ plugin' = [plugin EXCEPT !.timers = {}, !.emissionTimer = 0,
                              !.weatherService = 0,
                              !.lastWeatherData = EmptyObject]
  /\ service' = [service EXCEPT !.updateTimer = 0,
                                !.currentWeatherData = EmptyObject,
                                !.lastUpdate = 0]
  /\ loop' = [loop EXCEPT !.intervals = (@ \ plugin.timers) \ {service.updateTimer}]
  /\ event' = Event("stop")
  /\ UNCHANGED <<vessel, deltaValues>>
  /\ UNCHANGED <<callVars, clientVars>>

\* updateWeatherData up to its await, the event loop being left as l: no
\* position ends the call, a missing API key makes fetchCurrentWeather throw,
\* otherwise the request goes out
BeginUpdate(l) ==
  LET position == getPosition(service.settings, vessel.position)
  IN  IF position = Null
      THEN event' = Event("no position") /\ loop' = l
      ELSE IF ~Truthy(service.settings.accuWeatherApiKey)
           THEN event' = Event("no key") /\ loop' = l
           ELSE /\ event' = Event("fetch")
                /\ loop' = [l EXCEPT
                              !.begun = @ + 1,
                              !.calls = @ \cup {[call |-> l.begun + 1,
                                                 service |-> service.id]}]

\* the timeout of start() fires: weatherService.updateWeatherData(), where
\* weatherService is the variable of the module, null after stop()
InitialFetch ==
  /\ pc = "service"
  /\ loop.timeouts > 0
  /\ Started => loop.begun < MaxCalls
  /\ IF Started
     THEN BeginUpdate([loop EXCEPT !.timeouts = @ - 1])
     ELSE /\ event' = Event("TypeError")
          /\ loop' = [loop EXCEPT !.timeouts = @ - 1]
  /\ UNCHANGED <<plugin, service, vessel, deltaValues>>
  /\ UNCHANGED <<callVars, clientVars>>

\* the update interval of the service fires: this.updateWeatherData()
PeriodicFetch ==
  /\ pc = "service"
  /\ service.updateTimer \in loop.intervals
  /\ loop.begun < MaxCalls
  /\ BeginUpdate(loop)
  /\ UNCHANGED <<plugin, service, vessel, deltaValues>>
  /\ UNCHANGED <<callVars, clientVars>>

\* updateWeatherData after its await, the fetch having returned weatherData:
\* the service the call was made on takes the enhanced data (a service that
\* start() has replaced since is not referred to any more)
FetchReturns ==
  /\ pc = "service"
  /\ \E c \in loop.calls, weatherData \in FetchedReports :
       /\ loop' = [loop EXCEPT !.calls = @ \ {c}]
       /\ IF c.service = service.id
          THEN service' =
                 [service EXCEPT
                    !.currentWeatherData =
                      EnhancedWeatherData(
                        weatherData,
                        getVesselData(
                          SignalKGetVesselData(vessel.position,
                                               vessel.speedOverGround,
                                               vessel.courseOverGroundTrue))),
                    !.lastUpdate = loop.begun,
                    !.holds = c.call,
                    !.newest = IF c.call > @ THEN c.call ELSE @]
          ELSE UNCHANGED service
  /\ event' = Event("updated")
  /\ UNCHANGED <<plugin, vessel, deltaValues>>
  /\ UNCHANGED <<callVars, clientVars>>

\* mutant: a fetch that throws clears the data of the service
FetchThrows_clears ==
  /\ pc = "service"
  /\ \E c \in loop.calls : loop' = [loop EXCEPT !.calls = @ \ {c}]
  /\ event' = Event("fetch failed")
  /\ service' = [service EXCEPT !.currentWeatherData = EmptyObject,
                                !.lastUpdate = 0]
  /\ UNCHANGED <<plugin, vessel, deltaValues>>
  /\ UNCHANGED <<callVars, clientVars>>

\* updateWeatherData after its await, the fetch having thrown (no response,
\* a response that is not ok): the catch block
FetchThrows ==
  /\ pc = "service"
  /\ \E c \in loop.calls : loop' = [loop EXCEPT !.calls = @ \ {c}]
  /\ event' = Event("fetch failed")
  /\ UNCHANGED <<plugin, service, vessel, deltaValues>>
  /\ UNCHANGED <<callVars, clientVars>>

\* mutant: the batch is mapped from lastWeatherData, which is not renewed
emitWeatherData_lastKnown ==
  IF ~plugin.pathMapper
  THEN event' = Event("no mapper") /\ UNCHANGED <<plugin, deltaValues>>
  ELSE LET weatherData == plugin.lastWeatherData
       IN  /\ UNCHANGED plugin
           /\ IF validateDiverges(Obj(weatherData))
              THEN event' = Event("hung") /\ UNCHANGED deltaValues
              ELSE /\ event' = Event("emission")
                   /\ deltaValues' =
                        mapToSignalKPaths(
                          Obj(validateNMEA2000Ranges(Obj(weatherData))))

\* the emission interval fires: emitWeatherData(), deltaValues being what
\* app.handleMessage is given.  An object is truthy, so that currentData is
\* used whenever there is a weather service; on an object neither the
\* validator nor the mapper throws, and the mapper returns one update.
emitWeatherData ==
  IF ~plugin.pathMapper
  THEN event' = Event("no mapper") /\ UNCHANGED <<plugin, deltaValues>>
  ELSE LET weatherData == IF Started THEN service.currentWeatherData
                          ELSE plugin.lastWeatherData
       IN  /\ plugin' = [plugin EXCEPT !.lastWeatherData = weatherData]
           /\ IF validateDiverges(Obj(weatherData))
              THEN event' = Event("hung") /\ UNCHANGED deltaValues
              ELSE /\ event' = Event("emission")
                   /\ deltaValues' =
                        mapToSignalKPaths(
                          Obj(validateNMEA2000Ranges(Obj(weatherData))))

Emit ==
  /\ pc = "service"
  /\ \E timer \in loop.intervals : timer[1] = "emission"
  /\ emitWeatherData
  /\ UNCHANGED <<service, loop, vessel>>
  /\ UNCHANGED <<callVars, clientVars>>

\* the vessel moves on, turns, gets or loses its fix
VesselChanges ==
  /\ pc = "service"
  /\ vessel' \in VesselStates \ {vessel}
  /\ event' = Event("vessel")
  /\ UNCHANGED <<plugin, service, loop, deltaValues>>
  /\ UNCHANGED <<callVars, clientVars>>

----------------------------------------------------------------------------
(* AccuWeatherClient.getLocationKey and its location cache                 *)

MaxLookups == 3   \* calls of getLocationKey

\* x.toFixed(4) of a coordinate in 1/100000 degree: the sign of x and the
\* digits of |x| rounded to 1/10000 degree ("-0.0000" and "0.0000" differ)
ToFixed4(x) ==
  [negative |-> x < 0, digits |-> ((IF x < 0 THEN 0 - x ELSE x) + 5) \div 10]

\* `${latitude.toFixed(4)},${longitude.toFixed(4)}`
CoordsKey(latitude, longitude) == <<ToFixed4(latitude), ToFixed4(longitude)>>

\* the positions asked for: the fix, a position 3/100000 degree north of it,
\* one 1/10000 degree away, and positions either side of the equator
Places ==
  {<<4800000, 0 - 12300000>>, <<4800003, 0 - 12300000>>,
   <<4800010, 0 - 12300000>>, <<1, 0 - 12300000>>, <<0 - 1, 0 - 12300000>>}

\* what the location search answers: no response at all, a response that is
\* not ok, the body null (no location found), a location, and a location
\* without AdministrativeArea
LocationKeys == {"351409", "2628204"}

Response(kind, key) == [kind |-> kind, Key |-> key]

Responses ==
  {Response("network error", ""), Response("not ok", ""), Response("null", "")}
    \cup {Response(kind, key) : kind \in {"location", "no area"},
                                key \in LocationKeys}

\* new AccuWeatherClient(apiKey, debug): this.locationCache = new Map()
ClientInit ==
  /\ client = [locationCache |-> EmptyObject]
  /\ network = [lookups |-> {}, requests |-> 0, calls |-> 0,
                succeeded |-> EmptyObject]
  /\ reply = [kind |-> "none", coordsKey |-> <<>>, value |-> ""]

\* a call has returned value for coordsKey: what callers know from then on
Succeeded(coordsKey, value) ==
  IF coordsKey \in DOMAIN network.succeeded THEN network.succeeded
  ELSE Put(network.succeeded, coordsKey, value)

\* getLocationKey(latitude, longitude) up to its return or its await fetch
getLocationKey(latitude, longitude) ==
  LET coordsKey == CoordsKey(latitude, longitude)
  IN  IF coordsKey \in DOMAIN client.locationCache
      THEN /\ reply' = [kind |-> "cached", coordsKey |-> coordsKey,
                        value |-> client.locationCache[coordsKey]]
           /\ network' = [network EXCEPT
                            !.calls = @ + 1,
                            !.succeeded =
                              Succeeded(coordsKey,
                                        client.locationCache[coordsKey])]
      ELSE /\ reply' = [kind |-> "request", coordsKey |-> coordsKey,
                        value |-> ""]
           /\ network' = [network EXCEPT
                            !.calls = @ + 1,
                            !.requests = @ + 1,
                            !.lookups = @ \cup {[call |-> network.calls + 1,
                                                 coordsKey |-> coordsKey]}]

GetLocationKey ==
  /\ pc = "client"
  /\ network.calls < MaxLookups
  /\ \E place \in Places : getLocationKey(place[1], place[2])
  /\ UNCHANGED client
  /\ UNCHANGED <<callVars, deltaValues, serviceVars>>

\* getLocationKey after its await, the search having answered: a response
\* that is not ok and a body null throw before locationCache.set, a location
\* without AdministrativeArea throws in the debug line after it
LocationSearchAnswers ==
  /\ pc = "client"
  /\ \E c \in network.lookups, response \in Responses :
       LET cached == [client EXCEPT
                        !.locationCache = Put(@, c.coordsKey, response.Key)]
           without == [network EXCEPT !.lookups = @ \ {c}]
       IN  CASE response.kind = "location" ->
                  /\ client' = cached
                  /\ network' = [without EXCEPT
                                   !.succeeded = Succeeded(c.coordsKey,
                                                           response.Key)]
                  /\ reply' = [kind |-> "returned", coordsKey |-> c.coordsKey,
                               value |-> response.Key]
              [] response.kind = "no area" ->
                  /\ client' = cached
                  /\ network' = without
                  /\ reply' = [kind |-> "rejected", coordsKey |-> c.coordsKey,
                               value |-> response.kind]
              [] OTHER ->
                  /\ UNCHANGED client
                  /\ network' = without
                  /\ reply' = [kind |-> "rejected", coordsKey |-> c.coordsKey,
                               value |-> response.kind]
  /\ UNCHANGED <<callVars, deltaValues, serviceVars>>

----------------------------------------------------------------------------
(* The calls *)

Init ==
  /\ baseData \in Bases
  /\ \/ candidate \in {Obj(o) : o \in Varied(baseData, MaxOverrides)}
     \/ baseData = EmptyObject /\ candidate \in Primitives
  /\ pc = "input"
  /\ validatedData = EmptyObject
  /\ deltaValues = <<>>
  /\ callee = ""
  /\ args = <<>>
  /\ result = Undefined
  /\ ServiceInit
  /\ vessel = Vessel(Null, Null, Null)
  /\ ClientInit

\* validatedData = pathMapper.validateNMEA2000Ranges(weatherData)
Validate ==
  /\ pc = "input"
  /\ IF validateDiverges(candidate)
     THEN pc' = "hung" /\ UNCHANGED validatedData
     ELSE pc' = "validated" /\ validatedData' = validateNMEA2000Ranges(candidate)
  /\ candidate' = InputAfterValidate(candidate)
  /\ UNCHANGED <<baseData, deltaValues, callee, args, result>>
  /\ UNCHANGED <<serviceVars, clientVars>>

\* deltaMessage = pathMapper.mapToSignalKPaths(validatedData)
MapValidated ==
  /\ pc = "validated"
  /\ deltaValues' = mapToSignalKPaths(Obj(validatedData))
  /\ pc' = "emitted"
  /\ UNCHANGED <<candidate, baseData, validatedData, callee, args, result>>
  /\ UNCHANGED <<serviceVars, clientVars>>

\* mapToSignalKPaths on the data as it came
Map ==
  /\ pc = "input"
  /\ deltaValues' = mapToSignalKPaths(candidate)
  /\ pc' = "mapped"
  /\ UNCHANGED <<candidate, baseData, validatedData, callee, args, result>>
  /\ UNCHANGED <<serviceVars, clientVars>>

\* the next call of mapToSignalKPaths, on data that differs in one property
Remap(f, x) ==
  /\ pc = "mapped"
  /\ candidate.t = "object"
  /\ candidate' = Obj(Vary(candidate.o, f, x))
  /\ deltaValues' = mapToSignalKPaths(candidate')
  /\ UNCHANGED <<baseData, pc, validatedData, callee, args, result>>
  /\ UNCHANGED <<serviceVars, clientVars>>

\* the properties the next observation may differ in: any, while fewer than
\* MaxOverrides differ from the base, and then those that differ already
OpenFields ==
  IF candidate.t # "object" THEN {}
  ELSE IF Distance(baseData, candidate.o) < MaxOverrides THEN FieldNames
  ELSE {f \in FieldNames : Get(baseData, f) # Get(candidate.o, f)
                             \/ (f \in DOMAIN baseData) # (f \in DOMAIN candidate.o)}

Next ==
  \/ Validate
  \/ MapValidated
  \/ Map
  \/ \E f \in OpenFields : \E x \in FieldValues(f) : Remap(f, x)

Spec == Init /\ [][Next]_vars

----------------------------------------------------------------------------
(* The calculations, one call each                                         *)
(* A diagonal direction (an odd multiple of pi/4) is given in one          *)
(* representation only: the doubles of cos(x) and cos(x + 2 pi) differ in  *)
(* the last bit there, and the direction of an apparent wind that vanishes *)
(* up to that bit is rounding noise.                                       *)

Speeds ==
  {Num(0), Num(30), Num(51), Num(1023), NaN, PosInfinity, Undefined, Null,
   Str("abc")}

Angles ==
  {Num(a) : a \in {0 - 12, 0 - 8, 0 - 6, 0 - 4, 0 - 2, 0, 2, 4, 6, 8, 16}}
    \cup {NaN, Undefined}

Temperatures ==
  {Num(t) : t \in {25315, 27315, 28314, 28315, 28815, 29750, 29981, 29982,
                   29984, 29985, 30500, 0, 0 - 500}}
    \cup {NaN, PosInfinity, Undefined, Str("abc")}

ChillWinds ==
  {Num(0), Num(13), Num(14), Num(51), Num(200), NaN, PosInfinity, Undefined}

Humidities ==
  {Num(0), Num(39), Num(40), Num(65), Num(100), Num(10000), Num(0 - 50),
   NaN, PosInfinity, Undefined, Null}

Pressures ==
  {Num(101325), Num(80000), Num(1), Num(0), Num(0 - 5), NaN, PosInfinity,
   Undefined, Str("abc")}

RawHumidities ==
  {Num(h) : h \in {0, 6500, HumidityOne, HumidityOne + 100, 650000, 1000000,
                   0 - 5000, 0 - HumidityOne, 0 - 500000}}
    \cup {NaN, PosInfinity, NegInfinity, Undefined, Null, NumStr(650000)}

VesselPositions ==
  {Null, Obj([f \in {"latitude", "longitude"} |->
                IF f = "latitude" THEN Num(4800000) ELSE Num(0 - 12300000)])}

VesselSpeeds == {Null, NaN, Num(0), Num(30)}

VesselCourses == {Null, Num(0), Num(4), Num(12)}

WeatherReports ==
  {TypicalObservation,
   Put(TypicalObservation, "windDirection", Num(0)),
   Put(TypicalObservation, "windSpeed", Num(0)),
   Remove(TypicalObservation, "windSpeed")}

\* what getSelfPath may return for the course path number i: nothing, a
\* usable course (its value tells the path), a course from node-red, a course
\* outside 0..2 pi, a value that is not a number
CourseData(i) ==
  {NoData, Data(Num(2 * i), "gps.0"), Data(Num(2 * i), "signalk-node-red"),
   Data(Num(TwoPi + i), "gps.0"), Data(Str("abc"), "gps.0")}

ManualLatitudes == {Num(0), Num(4750000), Num(0 - 9000000)}

ManualLongitudes == {Num(0), Num(0 - 12250000), Num(18000000)}

CalcInit ==
  /\ candidate = Prim(Undefined)
  /\ baseData = EmptyObject
  /\ pc = "calc"
  /\ validatedData = EmptyObject
  /\ deltaValues = <<>>
  /\ callee = ""
  /\ args = <<>>
  /\ result = Undefined
  /\ ServiceInit
  /\ vessel = Vessel(Null, Null, Null)
  /\ ClientInit

\* a call made once: the callee, what it was given and what it returned
Call(name, arguments, value) ==
  /\ pc = "calc"
  /\ callee' = name
  /\ args' = arguments
  /\ result' = value
  /\ UNCHANGED <<candidate, baseData, pc, validatedData, deltaValues>>
  /\ UNCHANGED <<serviceVars, clientVars>>

CallApparentWindSpeed ==
  /\ callee = ""
  /\ \E s \in Speeds, v \in Speeds, h \in Angles, d \in Angles :
       Call("calculateApparentWindSpeed", <<s, v, h, d>>,
            calculateApparentWindSpeed(s, v, h, d))

CallApparentWindAngle ==
  /\ callee = ""
  /\ \E s \in Speeds, v \in Speeds, h \in Angles, d \in Angles :
       Call("calculateApparentWindAngle", <<s, v, h, d>>,
            calculateApparentWindAngle(s, v, h, d))

CallWindChill ==
  /\ callee = ""
  /\ \E t \in Temperatures, w \in ChillWinds :
       Call("calculateWindChill", <<t, w>>, calculateWindChill(t, w))

CallHeatIndex ==
  /\ callee = ""
  /\ \E t \in Temperatures, rh \in Humidities :
       Call("calculateHeatIndex", <<t, rh>>, calculateHeatIndex(t, rh))

CallAirDensity ==
  /\ callee = ""
  /\ \E t \in Temperatures, p \in Pressures, rh \in Humidities :
       Call("calculateAirDensity", <<t, p, rh>>, calculateAirDensity(t, p, rh))

CallConvertHumidity ==
  /\ callee = ""
  /\ \E h \in RawHumidities :
       Call("convertAccuWeatherHumidity", <<h>>, convertAccuWeatherHumidity(h))

\* updateWeatherData once the weather data has arrived: the vessel data are
\* read and this.currentWeatherData is assigned.  The observation may have
\* been fetched for the manual coordinates, so the vessel may have no
\* position.
UpdateWeatherData ==
  /\ callee = ""
  /\ \E weatherData \in WeatherReports, position \in VesselPositions,
        speedOverGround \in VesselSpeeds,
        courseOverGroundTrue \in VesselCourses :
       LET vesselData == getVesselData(
                           SignalKGetVesselData(position, speedOverGround,
                                                courseOverGroundTrue))
       IN  Call("updateWeatherData",
                <<weatherData, position, speedOverGround, courseOverGroundTrue>>,
                [vesselData |-> vesselData,
                 currentWeatherData |->
                   EnhancedWeatherData(weatherData, vesselData)])

CallGetCourse ==
  /\ callee = ""
  /\ \E c1 \in CourseData(1), c2 \in CourseData(2), c3 \in CourseData(3),
        c4 \in CourseData(4) :
       Call("getVesselCourseOverGroundTrue", <<c1, c2, c3, c4>>,
            getVesselCourseOverGroundTrue(<<c1, c2, c3, c4>>))

CallGetPosition ==
  /\ callee = ""
  /\ \E use \in BOOLEAN, lat \in ManualLatitudes, lon \in ManualLongitudes,
        vesselPosition \in VesselPositions :
       LET settings == [useVesselPosition |-> use, manualLatitude |-> lat,
                        manualLongitude |-> lon]
       IN  Call("getPosition", <<settings, vesselPosition>>,
                getPosition(settings, vesselPosition))

CalcNext ==
  \/ CallApparentWindSpeed
  \/ CallApparentWindAngle
  \/ CallWindChill
  \/ CallHeatIndex
  \/ CallAirDensity
  \/ CallConvertHumidity
  \/ UpdateWeatherData
  \/ CallGetCourse
  \/ CallGetPosition

CalcSpec == CalcInit /\ [][CalcNext]_vars

----------------------------------------------------------------------------
(* The plugin at work: start and stop, the timers, the fetches             *)

ServiceSpecInit ==
  /\ candidate = Prim(Undefined)
  /\ baseData = EmptyObject
  /\ pc = "service"
  /\ validatedData = EmptyObject
  /\ deltaValues = <<>>
  /\ callee = ""
  /\ args = <<>>
  /\ result = Undefined
  /\ ServiceInit
  /\ vessel \in VesselStates
  /\ ClientInit

ServiceNext ==
  \/ Start
  \/ Stop
  \/ InitialFetch
  \/ PeriodicFetch
  \/ FetchReturns
  \/ FetchThrows
  \/ Emit
  \/ VesselChanges

ServiceSpec == ServiceSpecInit /\ [][ServiceNext]_vars

----------------------------------------------------------------------------
(* The location cache at work *)

ClientSpecInit ==
  /\ candidate = Prim(Undefined)
  /\ baseData = EmptyObject
  /\ pc = "client"
  /\ validatedData = EmptyObject
  /\ deltaValues = <<>>
  /\ callee = ""
  /\ args = <<>>
  /\ result = Undefined
  /\ ServiceInit
  /\ vessel = Vessel(Null, Null, Null)
  /\ ClientInit

ClientNext ==
  \/ GetLocationKey
  \/ LocationSearchAnswers

ClientSpec == ClientSpecInit /\ [][ClientNext]_vars

----------------------------------------------------------------------------
(* Vocabulary of the properties *)

HasBatch == pc \in {"mapped", "emitted"}

\* the object the batch in deltaValues was mapped from
MappedObject == IF pc = "emitted" THEN validatedData ELSE ArgOrEmpty(candidate)

\* the object handed to the validator
CandidateObject == Spread(candidate)

DescriptionPath == "environment.outside.weatherDescription"

PathsOf(values) == [i \in 1..Len(values) |-> values[i].path]

NumericEntries(values) == SelectSeq(values, LAMBDA e : e.path # DescriptionPath)

HasPath(p) == \E i \in 1..Len(deltaValues) : deltaValues[i].path = p

ValueOf(p) == deltaValues[CHOOSE i \in 1..Len(deltaValues) : deltaValues[i].path = p].value

\* a value of a batch is a finite number
FiniteValue(x) == IF "k" \in DOMAIN x THEN x.k = "fin" ELSE x.t = "number"

Between(x, lo, hi) == x.t = "number" /\ lo <= x.v /\ x.v <= hi

\* the sixteen numeric paths in the order of section 6 of the specification
SixteenPaths ==
  << "environment.outside.temperature",
     "environment.outside.dewPointTemperature",
     "environment.outside.apparentTemperature",
     "environment.outside.windChillTemperature",
     "environment.outside.theoreticalWindChillTemperature",
     "environment.outside.heatIndexTemperature",
     "environment.outside.pressure",
     "environment.outside.relativeHumidity",
     "environment.wind.speedTrue",
     "environment.wind.directionTrue",
     "environment.wind.speedApparent",
     "environment.wind.angleApparent",
     "environment.wind.speedOverGround",
     "environment.wind.angleTrueWater",
     "environment.outside.absoluteHumidity",
     "environment.outside.airDensity" >>

TemperaturePaths == {SixteenPaths[i] : i \in 1..6}

\* the parameters taken directly from one property: path, property, the
\* documented default of section 4.5
Direct ==
  { <<"environment.outside.temperature", "temperature", 27315>>,
    <<"environment.outside.dewPointTemperature", "dewPoint", 27315>>,
    <<"environment.outside.apparentTemperature", "heatIndex", 27315>>,
    <<"environment.outside.windChillTemperature", "windChill", 27315>>,
    <<"environment.outside.theoreticalWindChillTemperature", "windChill", 27315>>,
    <<"environment.outside.heatIndexTemperature", "heatIndex", 27315>>,
    <<"environment.outside.pressure", "pressure", 101325>>,
    <<"environment.outside.relativeHumidity", "humidity", 50>>,
    <<"environment.wind.speedTrue", "windSpeed", 0>>,
    <<"environment.wind.directionTrue", "windDirection", 0>>,
    <<"environment.wind.speedApparent", "apparentWindSpeed", 0>>,
    <<"environment.wind.angleApparent", "apparentWindAngle", 0>>,
    <<"environment.wind.speedOverGround", "windSpeed", 0>>,
    <<"environment.wind.angleTrueWater", "windDirection", 0>> }

\* the properties a derived parameter is computed from
DerivedFrom ==
  { <<"environment.outside.absoluteHumidity", {"temperature", "humidity"}>>,
    <<"environment.outside.airDensity", {"temperature", "pressure", "humidity"}>> }

\* min(max(v, lo), hi)
Saturate(v, lo, hi) == IF v < lo THEN lo ELSE IF v > hi THEN hi ELSE v

\* a and b differ by an integer multiple of 2 pi
SameDirection(a, b) == (a - b) % TwoPi = 0

----------------------------------------------------------------------------
(* C1..C10 *)

\* C1: after validateNMEA2000Ranges and then mapToSignalKPaths every numeric
\* value of the batch is inside the legal range of its parameter: the six
\* temperatures in [233.15, 358.15] K, pressure in [80000, 120000] Pa,
\* humidity in [0, 1], both wind speeds in [0, 102.3] m/s, the true wind
\* direction in [0, 2 pi), the apparent wind angle in (-pi, pi].
C1_EmittedValuesInRange ==
  pc = "emitted" =>
    /\ \A p \in TemperaturePaths : Between(ValueOf(p), 23315, 35815)
    /\ Between(ValueOf("environment.outside.pressure"), 80000, 120000)
    /\ Between(ValueOf("environment.outside.relativeHumidity"), 0, 100)
    /\ Between(ValueOf("environment.wind.speedTrue"), 0, 1023)
    /\ Between(ValueOf("environment.wind.speedApparent"), 0, 1023)
    /\ Between(ValueOf("environment.wind.directionTrue"), 0, TwoPi - 1)
    /\ Between(ValueOf("environment.wind.angleApparent"), 1 - Pi, Pi)

\* C2 as stated: every batch of mapToSignalKPaths holds exactly 13 numeric
\* parameter names.
C2_ExactlyThirteenNames ==
  HasBatch => Len(NumericEntries(deltaValues)) = 13

\* C2 as amended: every batch of mapToSignalKPaths holds exactly the fixed
\* set of 16 numeric parameter names, each once, whatever the input; none is
\* ever omitted.
C2_ExactlySixteenNames ==
  HasBatch =>
    /\ Len(NumericEntries(deltaValues)) = 16
    /\ {NumericEntries(deltaValues)[i].path : i \in 1..Len(NumericEntries(deltaValues))}
         = {SixteenPaths[i] : i \in 1..16}

\* a batch mapped from something that is not an object
C2_Witness ==
  pc = "mapped" /\ candidate.t = "null" /\ Len(deltaValues) = 16

\* C3: the numeric path names come in the same order for every input, and
\* the weather description is the last entry exactly when the input has a
\* non-empty description, and is absent otherwise.
C3_FixedOrderDescriptionLast ==
  HasBatch =>
    LET described == /\ "description" \in DOMAIN MappedObject
                     /\ MappedObject["description"].t = "string"
                     /\ MappedObject["description"].s # ""
    IN  /\ Len(deltaValues) = IF described THEN 17 ELSE 16
        /\ SubSeq(PathsOf(deltaValues), 1, 16) = SixteenPaths
        /\ described =>
             /\ deltaValues[17].path = DescriptionPath
             /\ deltaValues[17].value = MappedObject["description"]

C3_Witness ==
  /\ pc = "mapped"
  /\ Get(MappedObject, "description") = Str("Sunny")
  /\ Len(deltaValues) = 17

\* C4: whatever the properties of the input are (absent, null, NaN,
\* +-Infinity, strings, numbers), every numeric entry of the batch of
\* mapToSignalKPaths, the derived absolute humidity and air density
\* included, is a finite number.
C4_EveryValueFinite ==
  HasBatch => \A i \in 1..16 : FiniteValue(deltaValues[i].value)

\* a temperature at which Math.exp overflows to Infinity
C4_Witness ==
  /\ pc = "mapped"
  /\ Get(MappedObject, "temperature") = Num(3500)
  /\ FiniteValue(ValueOf("environment.outside.airDensity"))

\* C5: a parameter taken directly from an input property is the property's
\* value when that is a finite number, and the parameter's static default
\* otherwise (273.15 K, 101325 Pa, 0.5, 0).
C5_ValueOrStaticDefault ==
  HasBatch =>
    \A d \in Direct :
      ValueOf(d[1]) = IF Get(MappedObject, d[2]).t = "number"
                      THEN Get(MappedObject, d[2])
                      ELSE Num(d[3])

\* the empty observation
C5_Witness ==
  /\ pc = "mapped"
  /\ candidate = Obj(EmptyObject)
  /\ ValueOf("environment.outside.pressure") = Num(101325)
  /\ ValueOf("environment.outside.relativeHumidity") = Num(50)

\* C6: the alias parameters carry the value of their primary.
C6_AliasesEqual ==
  HasBatch =>
    /\ ValueOf("environment.outside.theoreticalWindChillTemperature")
         = ValueOf("environment.outside.windChillTemperature")
    /\ ValueOf("environment.outside.apparentTemperature")
         = ValueOf("environment.outside.heatIndexTemperature")
    /\ ValueOf("environment.wind.speedOverGround")
         = ValueOf("environment.wind.speedTrue")
    /\ ValueOf("environment.wind.angleTrueWater")
         = ValueOf("environment.wind.directionTrue")

C6_Witness ==
  /\ pc = "mapped"
  /\ Get(MappedObject, "windChill") = Num(40000)
  /\ ValueOf("environment.outside.theoreticalWindChillTemperature") = Num(40000)

\* C7: from one call of mapToSignalKPaths to the next, a parameter whose
\* source properties are the same in both inputs has the same value in both
\* batches, whatever happened to the other properties.
C7_Independent ==
  [][(pc = "mapped" /\ pc' = "mapped") =>
       /\ \A d \in Direct :
            Get(ArgOrEmpty(candidate), d[2]) = Get(ArgOrEmpty(candidate'), d[2])
              => \A i \in 1..16 :
                   deltaValues[i].path = d[1] => deltaValues'[i] = deltaValues[i]
       /\ \A d \in DerivedFrom :
            (\A f \in d[2] :
               Get(ArgOrEmpty(candidate), f) = Get(ArgOrEmpty(candidate'), f))
              => \A i \in 1..16 :
                   deltaValues[i].path = d[1] => deltaValues'[i] = deltaValues[i]
    ]_vars

\* an invalid temperature beside a valid pressure
C7_Witness ==
  /\ pc = "mapped"
  /\ Get(MappedObject, "temperature") = NaN
  /\ Get(MappedObject, "pressure") = Num(101325)
  /\ ValueOf("environment.outside.pressure") = Num(101325)
  /\ ValueOf("environment.outside.temperature") = Num(27315)

\* C8: validateNMEA2000Ranges clamps temperature, pressure, humidity,
\* windSpeed and apparentWindSpeed whenever the property is a number, zero
\* and negative numbers included.
C8_ClampedWheneverPresent ==
  pc = "validated" =>
    \A r \in { <<"temperature", 23315, 35815>>, <<"pressure", 80000, 120000>>,
               <<"humidity", 0, 100>>, <<"windSpeed", 0, 1023>>,
               <<"apparentWindSpeed", 0, 1023>> } :
      Get(CandidateObject, r[1]).t = "number" =>
        Get(validatedData, r[1]) = Num(Saturate(Get(CandidateObject, r[1]).v, r[2], r[3]))

\* C9: validateNMEA2000Ranges clamps every temperature-type property
\* (temperature, dewPoint, windChill, heatIndex) to [233.15, 358.15] K; 400 K
\* becomes 358.15 K.  (Zero, which C8 is about, is left out here.)
C9_EveryTemperatureClamped ==
  pc = "validated" =>
    \A f \in {"temperature", "dewPoint", "windChill", "heatIndex"} :
      (Get(CandidateObject, f).t = "number" /\ Get(CandidateObject, f).v # 0) =>
        Get(validatedData, f) = Num(Saturate(Get(CandidateObject, f).v, 23315, 35815))

----------------------------------------------------------------------------
(* C11..C20 *)

\* the properties validateNMEA2000Ranges has a rule for
RuledFields ==
  {"temperature", "pressure", "humidity", "windSpeed", "apparentWindSpeed",
   "windDirection", "apparentWindAngle"}

----------------------------------------------------------------------------
(* C13..C20: the calculations                                              *)

\* the arguments of a call of an apparent-wind function
trueWindSpeedArg == args[1]
vesselSpeedArg == args[2]
vesselHeadingArg == args[3]
trueWindDirectionArg == args[4]

\* an apparent-wind function was called: both speeds are finite numbers >= 0,
\* heading and direction finite numbers
ValidWindArgs ==
  /\ callee \in {"calculateApparentWindSpeed", "calculateApparentWindAngle"}
  /\ trueWindSpeedArg.t = "number" /\ trueWindSpeedArg.v >= 0
  /\ vesselSpeedArg.t = "number" /\ vesselSpeedArg.v >= 0
  /\ vesselHeadingArg.t = "number"
  /\ trueWindDirectionArg.t = "number"

C14_VesselAtRest ==
  (ValidWindArgs /\ vesselSpeedArg = Num(0))
    => /\ callee = "calculateApparentWindSpeed" => result = trueWindSpeedArg
       /\ callee = "calculateApparentWindAngle"
            => result = normalizeAngle(AngleMinus(trueWindDirectionArg,
                                                  vesselHeadingArg))

\* a valid number: of type number and not NaN
ValidNumber(x) == TypeOf(x) = "number" /\ x.t # "NaN"

\* C15 (as stated): whenever trueWindSpeed or vesselSpeed is not a valid
\* number (absent, null, non-numeric or NaN), calculateApparentWindSpeed
\* returns the raw trueWindSpeed if that is a valid number and 0 otherwise,
\* and calculateApparentWindAngle returns trueWindDirection - vesselHeading
\* without normalization; the returned speed is always a number.
C15_DegradedMode ==
  /\ callee = "calculateApparentWindSpeed" => TypeOf(result) = "number"
  /\ (callee = "calculateApparentWindSpeed"
        /\ (~ValidNumber(trueWindSpeedArg) \/ ~ValidNumber(vesselSpeedArg)))
       => result = IF ValidNumber(trueWindSpeedArg) THEN trueWindSpeedArg
                   ELSE Num(0)
  /\ (callee = "calculateApparentWindAngle"
        /\ (~ValidNumber(trueWindSpeedArg) \/ ~ValidNumber(vesselSpeedArg)))
       => result = AngleMinus(trueWindDirectionArg, vesselHeadingArg)

\* the arguments of calculateWindChill and calculateHeatIndex
temperatureArg == args[1]
secondArg == args[2]

\* T in 1/100 K is below 80 degrees Fahrenheit: (T - 273.15) * 9 / 5 + 32 < 80
BelowEightyF(T) == T.t = "number" /\ 9 * (T.v - 27315) < 5 * 4800

\* C16 (as stated): for every temperature T below 26.7 degrees Celsius
\* (299.85 K) and every relative humidity, calculateHeatIndex(T, RH) returns
\* exactly T.
C16_PassthroughBelow267C ==
  (callee = "calculateHeatIndex" /\ temperatureArg.t = "number"
     /\ temperatureArg.v < 29985)
    => result = temperatureArg

\* C16 (amended): for every temperature T below 80 degrees Fahrenheit
\* (26.67 degrees Celsius, 299.8167 K) and every relative humidity,
\* calculateHeatIndex(T, RH) returns exactly T.
C16_PassthroughBelow80F ==
  (callee = "calculateHeatIndex" /\ BelowEightyF(temperatureArg))
    => result = temperatureArg

\* the warmest temperature on the grid below 80 F, in saturated air, and a
\* mild one at a humidity the regression would accept
C16_Witness ==
  /\ callee = "calculateHeatIndex"
  /\ \/ args = <<Num(29981), Num(100)>> /\ result = Num(29981)
     \/ args = <<Num(29750), Num(65)>> /\ result = Num(29750)

\* T in 1/100 K is at least 10 degrees Celsius
AtLeastTenC(T) == T.t = "Infinity" \/ (T.t = "number" /\ T.v >= 28315)

\* V in 1/10 m/s is below 4.8 km/h: V * 3.6 < 4.8
BelowChillWind(V) == V.t = "-Infinity" \/ (V.t = "number" /\ 36 * V.v < 480)

\* C17 (as stated): calculateWindChill(T, V) returns exactly T whenever
\* T >= 10 degrees Celsius, for any wind speed, and whenever the wind speed is
\* below 4.8 km/h, for any temperature; the regression is applied only when
\* T < 10 degrees Celsius and V >= 4.8 km/h.
C17_ChillPassthrough ==
  callee = "calculateWindChill"
    => /\ AtLeastTenC(temperatureArg) => result = temperatureArg
       /\ BelowChillWind(secondArg) => result = temperatureArg
       /\ result # temperatureArg
            => /\ temperatureArg.t = "number" /\ temperatureArg.v < 28315
               /\ \/ secondArg.t = "Infinity"
                  \/ secondArg.t = "number" /\ 36 * secondArg.v >= 480

\* C18 (as stated): for every numeric raw humidity h,
\* convertAccuWeatherHumidity returns h unchanged when |h| <= 1.0 and h / 100
\* otherwise (so -50 is divided by 100); for non-numeric input it returns
\* null.
C18_ByMagnitude ==
  callee = "convertAccuWeatherHumidity"
    => result =
         CASE TypeOf(args[1]) # "number" -> Null
           [] args[1].t = "number" ->
                IF Abs(args[1].v) <= HumidityOne THEN args[1]
                ELSE Num(Quot(args[1].v, 100))
           [] OTHER -> args[1]

\* 1.225 kg/m3, the density of air at sea level
StandardDensity == F(1225, 0 - 3)

\* temperature <= 0 K, pressure <= 0 Pa, or either not a finite number
BadDensityInput(temperatureK, pressurePa) ==
  \/ temperatureK.t # "number"
  \/ pressurePa.t # "number"
  \/ temperatureK.v <= 0
  \/ pressurePa.v <= 0

\* C19: calculateAirDensity returns 1.225 whenever temperature <= 0 K,
\* pressure <= 0 Pa or either is not a finite number, and whenever the
\* computed density is not finite or not positive; for every input (a
\* missing or NaN humidity included) the value returned is a finite number
\* greater than 0.
C19_AirDensityFallback ==
  callee = "calculateAirDensity"
    => /\ BadDensityInput(args[1], args[2]) => result = StandardDensity
       /\ (~BadDensityInput(args[1], args[2])
             /\ LET density == AirDensityFormula(args[1], args[2], args[3])
                IN  ~FIsFinite(density) \/ FNonPositive(density))
            => result = StandardDensity
       /\ result.k = "fin"
       /\ result.m > 0

\* an infinite humidity makes the computed density NaN (-Infinity +
\* Infinity), and a humidity of 100.0 (10000 %) makes it negative: 1.225 is
\* returned
C19_Witness ==
  /\ callee = "calculateAirDensity"
  /\ args[1] = Num(30500)
  /\ args[2] = Num(101325)
  /\ args[3] \in {PosInfinity, Num(10000)}
  /\ ~BadDensityInput(args[1], args[2])
  /\ LET density == AirDensityFormula(args[1], args[2], args[3])
     IN  ~FIsFinite(density) \/ FNonPositive(density)
  /\ result = StandardDensity

\* the arguments of the step of updateWeatherData
weatherDataArg == args[1]
speedArg == args[3]
courseArg == args[4]

\* a speed over ground and a course are both available
SpeedAndCourseAvailable ==
  TypeOf(speedArg) = "number" /\ TypeOf(courseArg) = "number"

\* C20 (as stated): the completeness flag is true exactly when both a speed
\* over ground and a course are available, whether or not a vessel position
\* is available; whenever both are available updateWeatherData computes the
\* apparent wind with the wind calculator and not with the true-wind,
\* angle-0 fallback.
C20_CompleteBySpeedAndCourse ==
  callee = "updateWeatherData"
    => /\ result.vesselData.isComplete <=> SpeedAndCourseAvailable
       /\ SpeedAndCourseAvailable
            => /\ result.currentWeatherData["apparentWindSpeed"]
                    = calculateApparentWindSpeed(
                        Get(weatherDataArg, "windSpeed"), OrZero(speedArg),
                        OrZero(courseArg), Get(weatherDataArg, "windDirection"))
               /\ result.currentWeatherData["apparentWindAngle"]
                    = calculateApparentWindAngle(
                        Get(weatherDataArg, "windSpeed"), OrZero(speedArg),
                        OrZero(courseArg), Get(weatherDataArg, "windDirection"))

----------------------------------------------------------------------------
(* C21..C30: the service, its timers and the location cache                *)

\* a course source is usable: numeric, not from node-red, within 0..2 pi
Usable(data) ==
  /\ data.present
  /\ data.value.t = "number"
  /\ data.source \notin NodeRedSources
  /\ 0 <= data.value.v
  /\ data.value.v <= TwoPi

\* C24 (as stated): getVesselCourseOverGroundTrue returns the value of the
\* first of courseOverGroundTrue, courseOverGroundMagnetic, headingTrue and
\* headingMagnetic that is usable (numeric, not from a node-red source,
\* within 0..2 pi), and null only when none of the four is usable.
C24_FirstUsableSource ==
  callee = "getVesselCourseOverGroundTrue"
    => result =
         IF \E i \in 1..4 : Usable(args[i])
         THEN args[CHOOSE i \in 1..4 :
                     Usable(args[i]) /\ \A j \in 1..(i - 1) : ~Usable(args[j])].value
         ELSE Null

\* the arguments of getPosition
settingsArg == args[1]
vesselPositionArg == args[2]

\* the manual coordinates as a position
ManualPosition(settings) ==
  Obj([f \in {"latitude", "longitude"} |->
         IF f = "latitude" THEN settings.manualLatitude
         ELSE settings.manualLongitude])

\* C26 (as stated): with useVesselPosition false, getPosition returns
\* (manualLatitude, manualLongitude) for every configured pair within the
\* schema range (0 included); with useVesselPosition true the manual
\* coordinates are never used.
C26_ManualExactlyWhenDisabled ==
  callee = "getPosition"
    => IF settingsArg.useVesselPosition
       THEN result = IF vesselPositionArg = Null THEN Null ELSE vesselPositionArg
       ELSE result = ManualPosition(settingsArg)

\* the value a batch has for a path
EntryValue(values, p) ==
  values[CHOOSE i \in 1..Len(values) : values[i].path = p].value

\* the vessel data as updateWeatherData would get it now
CurrentVesselData ==
  getVesselData(SignalKGetVesselData(vessel.position, vessel.speedOverGround,
                                     vessel.courseOverGroundTrue))

\* the last step emitted a batch of a service that holds fetched data
EmittedFetchedData ==
  /\ pc = "service"
  /\ event = [kind |-> "emission", started |-> TRUE]
  /\ service.currentWeatherData # EmptyObject

ApparentWindPaths ==
  {"environment.wind.speedApparent", "environment.wind.angleApparent"}

\* C21 (as stated): each emission carries the apparent wind speed and angle
\* computed from the vessel speed and course current at that emission, so
\* that a change of the vessel's motion between two fetches changes the
\* apparent wind of the next batch.
C21_ApparentWindAtEmission ==
  EmittedFetchedData =>
    LET recalculated ==
          mapToSignalKPaths(
            Obj(validateNMEA2000Ranges(
                  Obj(EnhancedWeatherData(service.currentWeatherData,
                                          CurrentVesselData)))))
    IN  \A p \in ApparentWindPaths :
          ValueOf(p) = EntryValue(recalculated, p)

\* what a callback of a timer does: emitWeatherData runs (to a batch, to the
\* loop that does not end, or to its first return), updateWeatherData is
\* invoked (and gets to the fetch or not), the callback throws
TimerCallbacks ==
  {"emission", "hung", "no mapper", "fetch", "no position", "no key",
   "TypeError"}

\* C22 (as stated): once stop() has resolved, no callback scheduled by a
\* preceding start() runs until the next start(): no delta is passed to
\* app.handleMessage, updateWeatherData is not invoked (the initial fetch
\* included), no callback throws.
C22_NoCallbackAfterStop ==
  pc = "service" /\ event.kind \in TimerCallbacks => event.started

\* the last step was an emission of the started plugin
EmittedWhileStarted ==
  pc = "service" /\ event = [kind |-> "emission", started |-> TRUE]

\* what mapToSignalKPaths({}) returns
PureDefaults == mapToSignalKPaths(Obj(EmptyObject))

FailedUpdates == {"no position", "no key", "fetch failed"}

\* C27: an updateWeatherData call that ends without a successful fetch (no
\* position, no API key, a fetch that throws) leaves currentWeatherData and
\* lastUpdate of the service as they were.
C27_FailureKeepsData ==
  [][pc = "service" /\ event'.kind \in FailedUpdates
       => /\ service'.currentWeatherData = service.currentWeatherData
          /\ service'.lastUpdate = service.lastUpdate]_vars

\* a fetch has thrown while the service held fetched data, and holds it still
C27_Witness ==
  /\ pc = "service"
  /\ event = [kind |-> "fetch failed", started |-> TRUE]
  /\ service.holds # 0
  /\ service.lastUpdate # 0
  /\ service.currentWeatherData # EmptyObject

\* C28 (as stated): when updateWeatherData calls overlap, currentWeatherData
\* holds the result of the call that was started last among those which
\* fetched successfully; a fetch started earlier that returns later never
\* overwrites newer data.
C28_LastStartedWins ==
  pc = "service" => service.holds = service.newest

\* the data the service holds
Held == service.currentWeatherData

\* the properties which the provider supplies and the calculator computes,
\* each with a path it is emitted under
Comfort ==
  {<<"dewPoint", "environment.outside.dewPointTemperature">>,
   <<"windChill", "environment.outside.windChillTemperature">>,
   <<"heatIndex", "environment.outside.heatIndexTemperature">>}

\* C29: after a successful updateWeatherData, windChill, heatIndex and
\* dewPoint of currentWeatherData are what the wind calculator computes from
\* the fetched temperature, wind speed and humidity; the dew point, wind
\* chill and RealFeel of the provider reach neither currentWeatherData nor
\* an emitted batch.
C29_ComfortIsComputed ==
  pc = "service" /\ Held # EmptyObject =>
    /\ Get(Held, "windChill")
         = calculateWindChill(Get(Held, "temperature"), Get(Held, "windSpeed"))
    /\ Get(Held, "heatIndex")
         = calculateHeatIndex(Get(Held, "temperature"), Get(Held, "humidity"))
    /\ Get(Held, "dewPoint")
         = calculateDewPoint(Get(Held, "temperature"), Get(Held, "humidity"))
    /\ \A c \in Comfort, report \in FetchedReports :
         /\ Get(Held, c[1]) # Get(report, c[1])
         /\ EmittedWhileStarted =>
              /\ ValueOf(c[2]) = Get(Held, c[1])
              /\ ValueOf(c[2]) # Get(report, c[1])

\* a batch was emitted with the computed dew point 281.62 K, where the
\* provider had reported 283.15 K
C29_Witness ==
  /\ EmittedWhileStarted
  /\ service.holds # 0
  /\ Get(Held, "dewPoint") = Num(28162)
  /\ ValueOf("environment.outside.dewPointTemperature") = Num(28162)

\* C25 (as stated): after getLocationKey has succeeded for a position, every
\* later call whose coordinates round to the same 4-decimal key returns the
\* same location key without a location search; in particular concurrent
\* calls for the same coordinates issue at most one location search.
C25_OneSearchPerPlace ==
  pc = "client" =>
    /\ reply.kind = "request" => reply.coordsKey \notin DOMAIN network.succeeded
    /\ reply.kind \in {"cached", "returned"} /\ reply.coordsKey \in DOMAIN network.succeeded
         => reply.value = network.succeeded[reply.coordsKey]
    /\ \A a, b \in network.lookups : a.coordsKey = b.coordsKey => a = b

\* C30 (as stated): a getLocationKey call that rejects leaves the location
\* cache unchanged, so that the cache only holds keys of lookups that
\* completed without error and a failed lookup is searched for again on the
\* next call.
C30_RejectionKeepsCache ==
  [][pc = "client" /\ reply'.kind = "rejected"
       => client'.locationCache = client.locationCache]_vars

====
